---- MODULE Spec2Model ----
(***************************************************************************)
(* Valuation toolkit: the DCF request handler and client model, the IRR    *)
(* solver, the LBO debt schedule and the log-normal Monte Carlo sampler.   *)
(* JavaScript numbers are modelled as decimal floating-point values with   *)
(* NaN and the two infinities; every arithmetic step of the source is one  *)
(* operator application here, in the source's order.                      *)
(***************************************************************************)
EXTENDS Integers, Sequences, FiniteSets, TLC

\* A number is a radix-10^4 floating-point value with NLimbs mantissa limbs
\* (17 to 20 significant decimal digits, truncated), or NaN, or +/-Infinity,
\* standing for an IEEE double (16 digits, overflow near 10^308).

\* Application by value: each argument is evaluated once and the operator is
\* applied to the values.
Ap1(Op(_), a) == CHOOSE r \in {Op(x) : x \in {a}} : TRUE
Ap2(Op(_, _), a, b) == CHOOSE r \in {Op(x, y) : x \in {a}, y \in {b}} : TRUE
Ap3(Op(_, _, _), a, b, c) ==
  CHOOSE r \in {Op(x, y, z) : x \in {a}, y \in {b}, z \in {c}} : TRUE
Ap4(Op(_, _, _, _), a, b, c, d) ==
  CHOOSE r \in {Op(x, y, z, u) : x \in {a}, y \in {b}, z \in {c}, u \in {d}} : TRUE

B == 10 ^ 4
NLimbs == 5
L == NLimbs
W == L + 2
EMax == 308 \div 4
EMin == 0 - (324 \div 4)

RECURSIVE Zeros(_)
Zeros(n) == IF n = 0 THEN <<>> ELSE Append(Zeros(n - 1), 0)
ZeroM == Zeros(L)
Fin(s, m, e) == [k |-> "fin", s |-> s, m |-> m, e |-> e]
FZero == Fin(0, ZeroM, 0)
FNaN == [k |-> "nan", s |-> 0, m |-> ZeroM, e |-> 0]
FInf(s) == [k |-> "inf", s |-> s, m |-> ZeroM, e |-> 0]

\* Carry propagation over the limb sums raw[1..i], least significant last; the
\* result has one limb more than raw.
RECURSIVE CarryFrom(_, _, _)
CarryFrom(raw, i, c) ==
  IF i = 0 THEN <<c>>
  ELSE Append(CarryFrom(raw, i - 1, (raw[i] + c) \div B), (raw[i] + c) % B)

CarryAll(raw) == CarryFrom(raw, Len(raw), 0)
Carry(raw) == Ap1(CarryAll, raw)

RECURSIVE FirstNZ(_, _)
FirstNZ(q, i) == IF i > Len(q) THEN 0 ELSE IF q[i] # 0 THEN i ELSE FirstNZ(q, i + 1)

NormAt(s, q, e, f) ==
  IF f = 0 \/ s = 0 THEN FZero
  ELSE IF e - (f - 1) > EMax THEN FInf(s)
  ELSE IF e - (f - 1) < EMin THEN FZero
  ELSE Fin(s, SubSeq(q \o ZeroM, f, f + L - 1), e - (f - 1))

NormV(s, q, e) == Ap4(NormAt, s, q, e, FirstNZ(q, 1))

\* The number s * q * B^e of the carried limbs q (q[1] at B^e), cut to L limbs.
Norm(s, q, e) == Ap3(NormV, s, q, e)

RECURSIVE CmpSeq(_, _, _)
CmpSeq(p, q, i) ==
  IF i > Len(p) THEN 0
  ELSE IF p[i] < q[i] THEN -1
  ELSE IF p[i] > q[i] THEN 1
  ELSE CmpSeq(p, q, i + 1)

CmpMag(a, b) == IF a.e # b.e THEN (IF a.e < b.e THEN -1 ELSE 1) ELSE CmpSeq(a.m, b.m, 1)

AlignedLimb(x, e, i) ==
  IF i - (e - x.e) >= 1 /\ i - (e - x.e) <= L THEN x.m[i - (e - x.e)] ELSE 0

\* Limbs 1..i of a + sg * b, both aligned to exponent e.
RECURSIVE AlignedSum(_, _, _, _, _)
AlignedSum(a, b, e, sg, i) ==
  IF i = 0 THEN <<>>
  ELSE Append(AlignedSum(a, b, e, sg, i - 1), AlignedLimb(a, e, i) + sg * AlignedLimb(b, e, i))

MaxInt(x, y) == IF x > y THEN x ELSE y

AddMag(s, a, b) ==
  Norm(s, Carry(AlignedSum(a, b, MaxInt(a.e, b.e), 1, W)), MaxInt(a.e, b.e) + 1)

\* |a| > |b|
SubMag(s, a, b) == Norm(s, Carry(AlignedSum(a, b, a.e, -1, W)), a.e + 1)

NegV(a) == [a EXCEPT !.s = 0 - a.s]
FNeg(a) == Ap1(NegV, a)

AddFin(a, b, c) ==
  IF c = 0 THEN FZero
  ELSE IF c > 0 THEN SubMag(a.s, a, b)
  ELSE SubMag(b.s, b, a)

AddV(a, b) ==
  IF a.k = "nan" \/ b.k = "nan" THEN FNaN
  ELSE IF a.k = "inf" THEN (IF b.k = "inf" /\ b.s # a.s THEN FNaN ELSE a)
  ELSE IF b.k = "inf" THEN b
  ELSE IF a.s = 0 THEN b
  ELSE IF b.s = 0 THEN a
  ELSE IF a.s = b.s THEN AddMag(a.s, a, b)
  ELSE AddFin(a, b, CmpMag(a, b))

FAdd(a, b) == Ap2(AddV, a, b)
FSub(a, b) == Ap2(AddV, a, FNeg(b))

RECURSIVE ConvSum(_, _, _, _)
ConvSum(p, q, k, i) ==
  IF i > L \/ i > k THEN 0
  ELSE (IF k + 1 - i <= L THEN p[i] * q[k + 1 - i] ELSE 0) + ConvSum(p, q, k, i + 1)

RECURSIVE MulCols(_, _, _)
MulCols(p, q, k) == IF k = 0 THEN <<>> ELSE Append(MulCols(p, q, k - 1), ConvSum(p, q, k, 1))

MulV(a, b) ==
  IF a.k = "nan" \/ b.k = "nan" THEN FNaN
  ELSE IF a.k = "inf" \/ b.k = "inf" THEN (IF a.s * b.s = 0 THEN FNaN ELSE FInf(a.s * b.s))
  ELSE IF a.s = 0 \/ b.s = 0 THEN FZero
  ELSE Norm(a.s * b.s, Carry(MulCols(a.m, b.m, 2 * L - 1)), a.e + b.e + 1)

FMul(a, b) == Ap2(MulV, a, b)

RECURSIVE DiffSeq(_, _, _)
DiffSeq(p, q, i) == IF i = 0 THEN <<>> ELSE Append(DiffSeq(p, q, i - 1), p[i] - q[i])

\* p - q limb by limb, for p >= q of equal length.
SubLimbs(p, q) == Tail(Carry(DiffSeq(p, q, Len(p))))

RECURSIVE ScaleSeq(_, _, _)
ScaleSeq(p, k, i) == IF i = 0 THEN <<>> ELSE Append(ScaleSeq(p, k, i - 1), k * p[i])

\* floor(t * B / dh) for t < dh < B * B, found digit by digit so that no
\* intermediate product leaves the 32-bit range.
EstQ(t, dh) ==
  IF t >= dh THEN B - 1
  ELSE LET d1 == (t * 10) \div dh
           r1 == (t * 10) % dh
           d2 == (r1 * 10) \div dh
           r2 == (r1 * 10) % dh
           d3 == (r2 * 10) \div dh
           r3 == (r2 * 10) % dh
           d4 == (r3 * 10) \div dh
       IN d1 * 1000 + d2 * 100 + d3 * 10 + d4

RECURSIVE FixUp(_, _, _)
FixUp(q, R, D0) ==
  IF CmpSeq(R, D0, 1) >= 0 THEN Ap3(FixUp, q + 1, SubLimbs(R, D0), D0) ELSE <<q, R>>

RECURSIVE FixDown(_, _, _, _)
FixDown(q, P, R, D0) ==
  IF CmpSeq(P, R, 1) > 0 THEN Ap4(FixDown, q - 1, SubLimbs(P, D0), R, D0)
  ELSE Ap3(FixUp, q, SubLimbs(R, P), D0)

DivEst(R, D, qh) == Ap4(FixDown, qh, Carry(ScaleSeq(D, qh, L)), R, <<0>> \o D)

\* One limb of long division: <<q, R - q * D>> for the (L+1)-limb remainder R.
DivStep(R, D) == Ap3(DivEst, R, D, EstQ(R[1] * B + R[2], D[1] * B + D[2]))

RECURSIVE DivLimbs(_, _, _)
DivNext(st, D, n) == <<st[1]>> \o DivLimbs(Append(Tail(st[2]), 0), D, n - 1)
DivLimbs(R, D, n) == IF n = 0 THEN <<>> ELSE Ap3(DivNext, Ap2(DivStep, R, D), D, n)

DivV(a, b) ==
  IF a.k = "nan" \/ b.k = "nan" THEN FNaN
  ELSE IF a.k = "inf" THEN (IF b.k = "inf" THEN FNaN ELSE FInf(IF b.s < 0 THEN 0 - a.s ELSE a.s))
  ELSE IF b.k = "inf" THEN FZero
  ELSE IF b.s = 0 THEN (IF a.s = 0 THEN FNaN ELSE FInf(a.s))
  ELSE IF a.s = 0 THEN FZero
  ELSE Norm(a.s * b.s, DivLimbs(<<0>> \o a.m, b.m, L + 1), a.e - b.e)

FDiv(a, b) == Ap2(DivV, a, b)

IntV(n) ==
  Norm(IF n < 0 THEN -1 ELSE IF n = 0 THEN 0 ELSE 1,
       IF n < 0 THEN <<(0 - n) \div (B * B), ((0 - n) \div B) % B, (0 - n) % B>>
       ELSE <<n \div (B * B), (n \div B) % B, n % B>>, 2)

\* The number of an integer literal, and of the decimal literal n / d.
FInt(n) == Ap1(IntV, n)
FDec(n, d) == FDiv(FInt(n), FInt(d))

LtV(a, b) ==
  IF a.k = "nan" \/ b.k = "nan" THEN FALSE
  ELSE IF a.k = "inf" THEN a.s < 0 /\ ~(b.k = "inf" /\ b.s < 0)
  ELSE IF b.k = "inf" THEN b.s > 0
  ELSE IF a.s # b.s THEN a.s < b.s
  ELSE IF a.s = 0 THEN FALSE
  ELSE IF a.s > 0 THEN CmpMag(a, b) < 0
  ELSE CmpMag(a, b) > 0

EqV(a, b) == a.k # "nan" /\ b.k # "nan" /\ a = b
LeV(a, b) == LtV(a, b) \/ EqV(a, b)

FLt(a, b) == Ap2(LtV, a, b)
FEq(a, b) == Ap2(EqV, a, b)
FLe(a, b) == Ap2(LeV, a, b)
FGt(a, b) == Ap2(LtV, b, a)
FGe(a, b) == Ap2(LeV, b, a)
IsFinite(a) == a.k = "fin"
AbsV(a) == IF a.s < 0 THEN NegV(a) ELSE a
FAbs(a) == Ap1(AbsV, a)
MaxV(a, b) == IF a.k = "nan" \/ b.k = "nan" THEN FNaN ELSE IF LtV(a, b) THEN b ELSE a
MinV(a, b) == IF a.k = "nan" \/ b.k = "nan" THEN FNaN ELSE IF LtV(b, a) THEN b ELSE a
MathMax(a, b) == Ap2(MaxV, a, b)
MathMin(a, b) == Ap2(MinV, a, b)


\* ---------------------------------------------------------------------
\* Math helpers of the source: Math.round, Math.sqrt, Math.pow, clamp
\* ---------------------------------------------------------------------

FOne == FInt(1)
FHalf == FDec(1, 2)

\* By-value sequence <<f[1], ..., f[n]>> of a function.
RECURSIVE SeqOf(_, _)
SeqOf(f, n) == IF n = 0 THEN <<>> ELSE Append(SeqOf(f, n - 1), f[n])

IntPart(x) ==
  IF x.e < 0 THEN 0
  ELSE IF x.e = 0 THEN x.m[1]
  ELSE IF x.e = 1 THEN x.m[1] * B + x.m[2]
  ELSE B * B

HasFrac(x) == \E j \in 1..L : j > x.e + 1 /\ x.m[j] # 0

FloorV(x) ==
  IF x.s >= 0 THEN IntPart(x)
  ELSE 0 - IntPart(x) - (IF HasFrac(x) THEN 1 ELSE 0)

\* The integer floor of a finite number of magnitude below 10^8.
FloorInt(x) == Ap1(FloorV, x)

RoundV(x) == IF x.k # "fin" THEN x ELSE FInt(FloorInt(FAdd(x, FHalf)))

\* Math.round: the nearest integer, halves rounded up.
MathRound(x) == Ap1(RoundV, x)

LengthV(x) == IF x.k # "fin" \/ x.s <= 0 THEN 0 ELSE FloorV(x)

\* Array.from({ length: x }): the length of the array built from a number.
ArrayLength(x) == Ap1(LengthV, x)

RECURSIVE ISqrtFrom(_, _)
ISqrtFrom(v, g) ==
  IF (g + v \div g) \div 2 >= g THEN g ELSE ISqrtFrom(v, (g + v \div g) \div 2)

FScale(x, k) == IF x.k = "fin" /\ x.s # 0 THEN [x EXCEPT !.e = @ + k] ELSE x

RECURSIVE SqrtNewton(_, _, _)
SqrtNewton(x, y, n) ==
  IF n = 0 THEN y ELSE Ap3(SqrtNewton, x, FMul(FHalf, FAdd(y, FDiv(x, y))), n - 1)

SqrtGuess(x, r) ==
  IF x.e % 2 = 1 THEN FScale(FInt(r), (x.e - 1) \div 2)
  ELSE FScale(FDiv(FInt(r), FInt(100)), x.e \div 2)

SqrtV(x) ==
  IF x.k = "nan" \/ x.s < 0 THEN FNaN
  ELSE IF x.k = "inf" \/ x.s = 0 THEN x
  ELSE Ap3(SqrtNewton, x,
           SqrtGuess(x, ISqrtFrom(x.m[1] * B + x.m[2], x.m[1] * B + x.m[2])), 5)

\* Math.sqrt
MathSqrt(x) == Ap1(SqrtV, x)

RECURSIVE PowV(_, _)
PowV(x, n) == IF n = 0 THEN FOne ELSE FMul(PowV(x, n - 1), x)

\* Math.pow(x, n) for an integer exponent n >= 0.
MathPow(x, n) == Ap2(PowV, x, n)

PowHalfV(x, n) ==
  IF x.k = "nan" \/ x.s < 0 THEN FNaN ELSE FMul(PowV(x, n - 1), SqrtV(x))

\* Math.pow(x, n - 0.5) for an integer n >= 1: NaN for a negative base.
MathPowHalf(x, n) == Ap2(PowHalfV, x, n)

\* A clamp that forgets its upper limit.
clampLowerOnly(x, a, b) == MathMax(a, x)

clamp(x, a, b) == MathMax(a, MathMin(b, x))

OrElseV(x, y) == IF x.k = "nan" \/ (x.k = "fin" /\ x.s = 0) THEN y ELSE x

\* x || y on numbers: y when x is 0 or NaN.
OrElse(x, y) == Ap2(OrElseV, x, y)

RECURSIVE SumV(_, _)
SumV(xs, n) == IF n = 0 THEN FZero ELSE FAdd(SumV(xs, n - 1), xs[n])

\* xs.reduce((s, v) => s + v, 0), summed from the left.
SumAll(xs) == SumV(xs, Len(xs))
Sum(xs) == Ap1(SumAll, xs)

\* ---------------------------------------------------------------------
\* State
\* ---------------------------------------------------------------------

\* The request handler: the request received, the value of the handler's
\* local "out", and the response sent.
VARIABLES req, out, resp

\* The page's DCF inputs (useState) and the memoised dcfModel.
VARIABLES dcf, dcfMemo

\* One call of irr: its arguments, the locals r, i, f, df of its loop, the
\* position in the loop body, and the value returned.
VARIABLES irrCashflows, irrGuess, irrR, irrI, irrF, irrDf, irrPc, irrRet

\* The page's LBO inputs (useState), the locals of lboModel while it waits
\* for irr, and the memoised lboModel.
VARIABLES lbo, lboFrame, lboMemo

\* One call of logNormalMonteCarlo: its arguments, the loop counters k and i,
\* the path value s, the paths pushed so far, the position, and the summary.
VARIABLES mcArgs, mcK, mcI, mcS, mcPaths, mcPc, mcOut

\* The page's risk inputs (useState), the locals of riskModel while it waits
\* for logNormalMonteCarlo, and the memoised riskModel.
VARIABLES risk, riskFrame, riskMemo

\* The scenario table, whether the database answers, and the last request on
\* a scenario id with its response.
VARIABLES store, dbUp, scReq, scResp

\* One call of a helper function (clamp, expSmooth): the call and its result.
VARIABLES call, ret

\* useDebouncedCallback: the hook's timeoutRef (0 for null), the timers the
\* window holds, the clock, the calls of the returned function, the
\* invocations of fn, and whether the component is mounted.
VARIABLES timeoutRef, timers, now, calls, invoked, mounted

\* The page's market poll: the state markets, marketsUpdatedAt and
\* marketsStatus, the calls of fetchMarkets that wait for their response, and
\* the number of calls started.
VARIABLES markets, marketsUpdatedAt, marketsStatus, inflight, started

\* GET /api/markets: what the quote source answers for each index, and the
\* body of the response.
VARIABLES feed, marketsBody

serverVars == <<req, out, resp>>
dcfVars == <<dcf, dcfMemo>>
irrVars == <<irrCashflows, irrGuess, irrR, irrI, irrF, irrDf, irrPc, irrRet>>
lboVars == <<lbo, lboFrame, lboMemo>>
mcVars == <<mcArgs, mcK, mcI, mcS, mcPaths, mcPc, mcOut>>
riskVars == <<risk, riskFrame, riskMemo>>
scenVars == <<store, dbUp, scReq, scResp>>
fnVars == <<call, ret>>
debounceVars == <<timeoutRef, timers, now, calls, invoked, mounted>>
pollVars == <<markets, marketsUpdatedAt, marketsStatus, inflight, started>>
marketVars == <<feed, marketsBody>>
hookVars == <<debounceVars, pollVars, marketVars>>
vars ==
  <<serverVars, dcfVars, irrVars, lboVars, mcVars, riskVars, scenVars, fnVars,
    hookVars>>

\* ---------------------------------------------------------------------
\* DCF engine of the request handler: computeDcf, validate, POST
\* ---------------------------------------------------------------------


\* N, as the length of the years array.
ForecastYears(i) == ArrayLength(clamp(MathRound(i.years), FInt(1), FInt(15)))

revs(i, N) ==
  SeqOf([t \in 1..N |-> FMul(i.revenue0, MathPow(FAdd(FOne, i.revGrowth), t))], N)

\* A margin path that reaches the terminal margin one year late.
marginOneYearLate(i, N) ==
  SeqOf([t \in 1..N |->
           FAdd(i.ebitdaMargin0,
                FMul(FSub(i.ebitdaMarginT, i.ebitdaMargin0),
                     FDiv(FInt(t - 1), FInt(N))))], N)

margin(i, N) ==
  SeqOf([t \in 1..N |->
           FAdd(i.ebitdaMargin0,
                FMul(FSub(i.ebitdaMarginT, i.ebitdaMargin0),
                     IF N = 1 THEN FOne ELSE FDiv(FInt(t), FInt(N))))], N)

\* A year in which a loss earns a tax credit.
YearFlowsWithTaxCredit(i, r, r0, m) ==
  LET ebitda == FMul(r, m)
      da == FMul(r, i.daPctRev)
      ebit == FSub(ebitda, da)
      taxes == FMul(ebit, i.taxRate)
      nopat == FSub(ebit, taxes)
      dNwc == FSub(FMul(r, i.nwcPctRev), FMul(r0, i.nwcPctRev))
      capex == FMul(r, i.capexPctRev)
  IN [revenue |-> r, ebitda |-> ebitda, ebit |-> ebit, taxes |-> taxes,
      nopat |-> nopat, ufcf |-> FSub(FSub(FAdd(nopat, da), capex), dNwc)]

\* One year of the forecast from its revenue r, last year's revenue r0 and
\* its margin m: ebitda, da, ebit, taxes, nopat, nwc, dNwc, capex, ufcf.
\* The record keeps ebit, taxes and nopat beside the fields that are used
\* further on.
YearFlows(i, r, r0, m) ==
  LET ebitda == FMul(r, m)
      da == FMul(r, i.daPctRev)
      ebit == FSub(ebitda, da)
      taxes == FMul(MathMax(FZero, ebit), i.taxRate)
      nopat == FSub(ebit, taxes)
      dNwc == FSub(FMul(r, i.nwcPctRev), FMul(r0, i.nwcPctRev))
      capex == FMul(r, i.capexPctRev)
  IN [revenue |-> r, ebitda |-> ebitda, ebit |-> ebit, taxes |-> taxes,
      nopat |-> nopat, ufcf |-> FSub(FSub(FAdd(nopat, da), capex), dNwc)]

FlowRows(i, N, rv, mg) ==
  SeqOf([t \in 1..N |-> YearFlows(i, rv[t], IF t = 1 THEN i.revenue0 ELSE rv[t - 1], mg[t])], N)

Flows(i, N) == Ap4(FlowRows, i, N, revs(i, N), margin(i, N))

\* A cost of capital whose debt leg has lost the tax shield.
WaccWithoutTaxShield(i) ==
  LET ke == FAdd(i.rf, FMul(i.beta, i.mrp))
      kd == i.preTaxKd
      wd == clamp(i.targetDebtPct, FZero, FDec(95, 100))
      we == FSub(FOne, wd)
  IN [ke |-> ke, kd |-> kd, wd |-> wd, we |-> we,
      wacc |-> FAdd(FMul(we, ke), FMul(wd, kd))]

\* ke, kd, wd, we, wacc
Wacc(i) ==
  LET ke == FAdd(i.rf, FMul(i.beta, i.mrp))
      kd == FMul(i.preTaxKd, FSub(FOne, i.taxRate))
      wd == clamp(i.targetDebtPct, FZero, FDec(95, 100))
      we == FSub(FOne, wd)
  IN [ke |-> ke, kd |-> kd, wd |-> wd, we |-> we,
      wacc |-> FAdd(FMul(we, ke), FMul(wd, kd))]

GordonValue(lastUfcf, g, denom) ==
  IF FLe(denom, FZero) THEN FNaN ELSE FDiv(FMul(lastUfcf, FAdd(FOne, g)), denom)

\* A terminal value whose exit multiple is grown by tg.
TerminalValueGrownExit(i, wacc, lastUfcf, lastEbitda) ==
  IF i.terminalMethod = "exit"
  THEN FMul(FMul(lastEbitda, i.exitMultiple), FAdd(FOne, i.tg))
  ELSE GordonValue(lastUfcf, i.tg, FSub(wacc, i.tg))

\* tv: the exit multiple for "exit", the Gordon formula for anything else.
TerminalValue(i, wacc, lastUfcf, lastEbitda) ==
  IF i.terminalMethod = "exit" THEN FMul(lastEbitda, i.exitMultiple)
  ELSE GordonValue(lastUfcf, i.tg, FSub(wacc, i.tg))

DiscountFactors(i, N, wacc) ==
  SeqOf([t \in 1..N |->
           FDiv(FOne, IF i.midYear THEN MathPowHalf(FAdd(FOne, wacc), t)
                      ELSE MathPow(FAdd(FOne, wacc), t))], N)

PresentValues(fl, df) == SeqOf([t \in 1..Len(fl) |-> FMul(fl[t].ufcf, df[t])], Len(fl))

\* equityValue
EquityBridge(ev, i) == FSub(ev, i.netDebt)

\* pricePerShare
PerShare(eq, i) == FDiv(eq, OrElse(i.shares, FNaN))

DcfResult(i, k, fl, df, pv, tv) ==
  LET N == Len(fl)
      pvTv == FMul(tv, IF N = 0 THEN FZero ELSE df[N])
      ev == FAdd(Sum(pv), pvTv)
      eq == EquityBridge(ev, i)
  IN [N |-> N, ke |-> k.ke, kd |-> k.kd, we |-> k.we, wd |-> k.wd, wacc |-> k.wacc,
      tv |-> tv, pvTv |-> pvTv, enterpriseValue |-> ev, equityValue |-> eq,
      pricePerShare |-> PerShare(eq, i),
      table |-> SeqOf([t \in 1..N |->
                         [year |-> t, revenue |-> fl[t].revenue, ebitda |-> fl[t].ebitda,
                          ufcf |-> fl[t].ufcf, discountFactor |-> df[t],
                          pvUfcf |-> pv[t]]], N)]

DcfValue(i, k, fl, df) ==
  Ap4(LAMBDA pv, tv, i1, k1 : DcfResult(i1, k1, fl, df, pv, tv),
      PresentValues(fl, df),
      TerminalValue(i, k.wacc, IF Len(fl) = 0 THEN FZero ELSE fl[Len(fl)].ufcf,
                    IF Len(fl) = 0 THEN FZero ELSE fl[Len(fl)].ebitda),
      i, k)

DcfDiscount(i, N, k, fl) == Ap4(DcfValue, i, k, fl, DiscountFactors(i, N, k.wacc))

DcfFlows(i, N) == Ap4(DcfDiscount, i, N, Wacc(i), Flows(i, N))

\* The forecast of the request handler: fields of i are years, revenue0,
\* ebitdaMargin0, ebitdaMarginT, revGrowth, daPctRev, capexPctRev, nwcPctRev,
\* taxRate, rf, beta, mrp, preTaxKd, targetDebtPct, terminalMethod, tg,
\* exitMultiple, netDebt, shares, midYear.
computeDcf(i) == Ap2(DcfFlows, i, ForecastYears(i))

\* !(lo <= x && x <= hi): also true of a missing (NaN) field.
NotWithin(x, lo, hi) == ~(FGe(x, lo) /\ FLe(x, hi))

\* A validator that has lost the shares rule.
validateWithoutShares(i) ==
  (IF NotWithin(i.years, FInt(1), FInt(15)) THEN <<"years must be 1-15">> ELSE <<>>)
  \o (IF ~FGt(i.revenue0, FZero) THEN <<"revenue0 must be > 0">> ELSE <<>>)
  \o (IF NotWithin(i.taxRate, FZero, FDec(6, 10)) THEN <<"taxRate must be 0-0.6">> ELSE <<>>)
  \o (IF NotWithin(i.targetDebtPct, FZero, FDec(95, 100))
      THEN <<"targetDebtPct must be 0-0.95">> ELSE <<>>)

\* errs, in the order of the five rules; the en dash of the range messages
\* is written as a hyphen.
validate(i) ==
  (IF NotWithin(i.years, FInt(1), FInt(15)) THEN <<"years must be 1-15">> ELSE <<>>)
  \o (IF ~FGt(i.revenue0, FZero) THEN <<"revenue0 must be > 0">> ELSE <<>>)
  \o (IF ~FGt(i.shares, FZero) THEN <<"shares must be > 0">> ELSE <<>>)
  \o (IF NotWithin(i.taxRate, FZero, FDec(6, 10)) THEN <<"taxRate must be 0-0.6">> ELSE <<>>)
  \o (IF NotWithin(i.targetDebtPct, FZero, FDec(95, 100))
      THEN <<"targetDebtPct must be 0-0.95">> ELSE <<>>)

NoOut == [N |-> 0]
NoReq == [kind |-> "none"]
NoResp == [ok |-> FALSE, status |-> 0]

\* The terminal check of POST, made on computeDcf's result.
TerminalRejected(body, o) == body.terminalMethod = "gordon" /\ FLe(o.wacc, body.tg)

\* The answer of POST once computeDcf has returned o.
Answer(body, o) ==
  IF TerminalRejected(body, o)
  THEN [o |-> o, r |-> [ok |-> FALSE, status |-> 400,
         errors |-> <<"Invalid terminal: WACC must be > terminal growth (g) for Gordon.">>]]
  ELSE [o |-> o, r |-> [ok |-> TRUE, status |-> 200, result |-> o]]

\* The handler's path for a parsed body: out stays unset when validation fails.
Respond(body) ==
  IF Len(validate(body)) > 0
  THEN [o |-> NoOut, r |-> [ok |-> FALSE, status |-> 400, errors |-> validate(body)]]
  ELSE Ap2(Answer, body, computeDcf(body))

\* The end-to-end example input, which is also the client's initial DCF state.
DcfExample ==
  [years |-> FInt(5), revenue0 |-> FInt(1000),
   ebitdaMargin0 |-> FDec(22, 100), ebitdaMarginT |-> FDec(24, 100),
   revGrowth |-> FDec(10, 100), daPctRev |-> FDec(3, 100),
   capexPctRev |-> FDec(4, 100), nwcPctRev |-> FDec(10, 100),
   taxRate |-> FDec(25, 100), rf |-> FDec(4, 100), beta |-> FDec(12, 10),
   mrp |-> FDec(5, 100), preTaxKd |-> FDec(65, 1000),
   targetDebtPct |-> FDec(30, 100), terminalMethod |-> "gordon",
   tg |-> FDec(3, 100), exitMultiple |-> FInt(10), netDebt |-> FInt(300),
   shares |-> FInt(100), midYear |-> TRUE]

\* Bound on the forecast horizons of the terminal-value request family.
MaxForecastYears == 3

\* Requests that probe the five validation rules at and around their limits;
\* NaN stands for a field the JSON body leaves out.
ValidationBodies ==
  {[DcfExample EXCEPT !.years = y, !.revenue0 = r, !.shares = s,
                      !.taxRate = x, !.targetDebtPct = d] :
     y \in {FNaN, FDec(1, 2), FInt(1), FInt(15), FDec(155, 10)},
     r \in {FInt(-1), FZero, FInt(1000)},
     s \in {FZero, FInt(100)},
     x \in {FDec(-1, 100), FZero, FDec(6, 10), FDec(61, 100)},
     d \in {FDec(-1, 100), FZero, FDec(95, 100), FDec(96, 100)}}

\* Valid requests that vary the terminal method, the growth rate, the
\* risk-free rate and the discounting convention.  The body is unchecked
\* JSON, so terminalMethod may be any string.
TerminalBodies ==
  {[DcfExample EXCEPT !.years = FInt(n), !.terminalMethod = tm, !.tg = g,
                      !.rf = rf, !.midYear = my] :
     n \in 1..MaxForecastYears,
     tm \in {"gordon", "exit", "perpetuity"},
     g \in {FDec(3, 100), FDec(84625, 1000000), FDec(9, 100), FInt(-3)},
     rf \in {FDec(4, 100), FInt(-2)},
     my \in BOOLEAN}

PostBodies == ValidationBodies \cup TerminalBodies \cup {DcfExample}

\* POST /api/dcf: parse, validate, compute, check the terminal, answer.
POST ==
  /\ req = NoReq
  /\ \/ \E b \in PostBodies : \E a \in {Respond(b)} :
          /\ req' = [kind |-> "json", body |-> b]
          /\ out' = a.o
          /\ resp' = a.r
     \/ /\ req' = [kind |-> "malformed"]
        /\ out' = NoOut
        /\ resp' = [ok |-> FALSE, status |-> 400, error |-> "Bad request"]
  /\ UNCHANGED <<dcfVars, irrVars, lboVars, mcVars, riskVars, scenVars, fnVars, hookVars>>

\* ---------------------------------------------------------------------
\* DCF model of the page: dcfModel with its sensitivity grid
\* ---------------------------------------------------------------------

\* waccGrid: five columns around the WACC, each clamped to [0.01, 0.5].
waccGrid(wacc) ==
  <<clamp(FSub(wacc, FDec(2, 100)), FDec(1, 100), FDec(5, 10)),
    clamp(FSub(wacc, FDec(1, 100)), FDec(1, 100), FDec(5, 10)),
    clamp(wacc, FDec(1, 100), FDec(5, 10)),
    clamp(FAdd(wacc, FDec(1, 100)), FDec(1, 100), FDec(5, 10)),
    clamp(FAdd(wacc, FDec(2, 100)), FDec(1, 100), FDec(5, 10))>>

\* A growth grid that starts at the current growth rate instead of around it.
gGridFromCurrent(tg) ==
  <<clamp(tg, FZero, FDec(8, 100)),
    clamp(FAdd(tg, FDec(1, 100)), FZero, FDec(8, 100)),
    clamp(FAdd(tg, FDec(2, 100)), FZero, FDec(8, 100))>>

\* gGrid: three rows around the growth rate, each clamped to [0, 0.08].
gGrid(tg) ==
  <<clamp(FSub(tg, FDec(1, 100)), FZero, FDec(8, 100)),
    clamp(tg, FZero, FDec(8, 100)),
    clamp(FAdd(tg, FDec(1, 100)), FZero, FDec(8, 100))>>

\* One cell of sensWG: the price per share at discount rate w and growth g,
\* always by the Gordon formula, on the base case's discounted cash flows.
SensCell(d, lastUfcf, dfLast, pvSum, w, g) ==
  IF FLe(FSub(w, g), FZero) THEN FNaN
  ELSE FDiv(FSub(FAdd(pvSum, FMul(FDiv(FMul(lastUfcf, FAdd(FOne, g)), FSub(w, g)), dfLast)),
                 d.netDebt),
            OrElse(d.shares, FNaN))

SensGrid(d, lastUfcf, dfLast, pvSum, ws, gs) ==
  SeqOf([r \in 1..3 |->
           SeqOf([c \in 1..5 |-> SensCell(d, lastUfcf, dfLast, pvSum, ws[c], gs[r])], 5)], 3)

SensOf(d, base, ws, gs) ==
  Ap4(LAMBDA lastUfcf, dfLast, pvSum, d1 : SensGrid(d1, lastUfcf, dfLast, pvSum, ws, gs),
      IF base.N = 0 THEN FZero ELSE base.table[base.N].ufcf,
      IF base.N = 0 THEN FZero ELSE base.table[base.N].discountFactor,
      Sum(SeqOf([t \in 1..base.N |-> base.table[t].pvUfcf], base.N)),
      d)

DcfWithSens(d, base) ==
  Ap3(LAMBDA ws, gs, sens :
        [N |-> base.N, ke |-> base.ke, kd |-> base.kd, we |-> base.we, wd |-> base.wd,
         wacc |-> base.wacc, tv |-> base.tv, pvTv |-> base.pvTv,
         enterpriseValue |-> base.enterpriseValue, equityValue |-> base.equityValue,
         pricePerShare |-> base.pricePerShare,
         waccGrid |-> ws, gGrid |-> gs, sensWG |-> sens],
      waccGrid(base.wacc), gGrid(d.tg),
      Ap4(SensOf, d, base, waccGrid(base.wacc), gGrid(d.tg)))

\* The statements of dcfModel up to the price per share, read from the page
\* one by one and independently of the request handler's computeDcf.

\* Year t of N: revs, margin, ebitda, da, ebit, taxes, nopat, nwc, dNwc,
\* capex, ufcf.
dcfModelYear(d, N, t) ==
  Ap3(LAMBDA r, r0, m :
        LET ebitda == FMul(r, m)
            da == FMul(r, d.daPctRev)
            ebit == FSub(ebitda, da)
            taxes == FMul(MathMax(FZero, ebit), d.taxRate)
            nopat == FSub(ebit, taxes)
            dNwc == FSub(FMul(r, d.nwcPctRev), FMul(r0, d.nwcPctRev))
            capex == FMul(r, d.capexPctRev)
        IN [Revenue |-> r, EBITDA |-> ebitda,
            UFCF |-> FSub(FSub(FAdd(nopat, da), capex), dNwc)],
      FMul(d.revenue0, MathPow(FAdd(FOne, d.revGrowth), t)),
      IF t = 1 THEN d.revenue0
      ELSE FMul(d.revenue0, MathPow(FAdd(FOne, d.revGrowth), t - 1)),
      FAdd(d.ebitdaMargin0,
           FMul(FSub(d.ebitdaMarginT, d.ebitdaMargin0),
                IF N = 1 THEN FOne ELSE FDiv(FInt(t), FInt(N)))))

\* ke, kd, wd, we, wacc
dcfModelWacc(d) ==
  Ap2(LAMBDA ke, wd :
        [ke |-> ke, kd |-> FMul(d.preTaxKd, FSub(FOne, d.taxRate)), wd |-> wd,
         we |-> FSub(FOne, wd),
         wacc |-> FAdd(FMul(FSub(FOne, wd), ke),
                       FMul(wd, FMul(d.preTaxKd, FSub(FOne, d.taxRate))))],
      FAdd(d.rf, FMul(d.beta, d.mrp)),
      MathMax(FZero, MathMin(FDec(95, 100), d.targetDebtPct)))

\* tv, pvUfcf, pvTv, enterpriseValue, equityValue, pricePerShare from the
\* timeline ys and the discount factors.
dcfModelValue(d, k, ys, discountFactor) ==
  Ap3(LAMBDA tv, pvSum, dfLast :
        LET pvTv == FMul(tv, dfLast)
            enterpriseValue == FAdd(pvSum, pvTv)
            equityValue == FSub(enterpriseValue, d.netDebt)
        IN [N |-> Len(ys), ke |-> k.ke, kd |-> k.kd, we |-> k.we, wd |-> k.wd,
            wacc |-> k.wacc, tv |-> tv, pvTv |-> pvTv,
            enterpriseValue |-> enterpriseValue, equityValue |-> equityValue,
            pricePerShare |->
              FDiv(equityValue,
                   IF d.shares.k = "nan" \/ d.shares = FZero THEN FNaN ELSE d.shares)],
      IF d.terminalMethod = "exit"
      THEN FMul(IF Len(ys) = 0 THEN FZero ELSE ys[Len(ys)].EBITDA, d.exitMultiple)
      ELSE IF FLe(FSub(k.wacc, d.tg), FZero) THEN FNaN
      ELSE FDiv(FMul(IF Len(ys) = 0 THEN FZero ELSE ys[Len(ys)].UFCF,
                     FAdd(FOne, d.tg)),
                FSub(k.wacc, d.tg)),
      Sum(SeqOf([t \in 1..Len(ys) |-> FMul(ys[t].UFCF, discountFactor[t])], Len(ys))),
      IF Len(ys) = 0 THEN FZero ELSE discountFactor[Len(ys)])

dcfModelStatements(d) ==
  Ap2(LAMBDA N, k :
        Ap4(dcfModelValue, d, k,
            SeqOf([t \in 1..N |-> dcfModelYear(d, N, t)], N),
            SeqOf([t \in 1..N |->
                     FDiv(FOne, IF d.midYear
                                THEN MathPowHalf(FAdd(FOne, k.wacc), t)
                                ELSE MathPow(FAdd(FOne, k.wacc), t))], N)),
      ArrayLength(MathMax(FInt(1), MathMin(FInt(15), MathRound(d.years)))),
      dcfModelWacc(d))

\* The memoised model of the page.  Its forecast, cost of capital, terminal
\* value and valuation are composed from the operators of computeDcf, which
\* the statements above are compared with (DcfCopiesAgree); the chart series
\* (timeline, mlTimeline) are display data and are not part of the model.
dcfModel(d) == Ap2(DcfWithSens, d, computeDcf(d))

NoMemo == [N |-> 0 - 1]
NoLbo == [rows |-> <<>>]

\* Inputs the page can hold: every field is free (number fields are parsed
\* from text, scenarios are loaded as stored).
DcfInputs ==
  {[DcfExample EXCEPT !.terminalMethod = tm, !.tg = g, !.rf = rf, !.shares = s,
                      !.years = y] :
     tm \in {"gordon", "exit"},
     g \in {FZero, FDec(3, 100), FDec(8, 100), FDec(10, 100)},
     rf \in {FDec(4, 100), FDec(-7, 100), FDec(70, 100)},
     s \in {FZero, FInt(100)},
     y \in {FInt(1), FInt(2)}}

\* A render of the page: useMemo evaluates dcfModel on the current inputs.
\* The hooks of the component run in source order, dcfModel before lboModel.
RenderDcf ==
  /\ dcfMemo = NoMemo /\ lboFrame = NoLbo
  /\ dcfMemo' = dcfModel(dcf)
  /\ UNCHANGED <<dcf, serverVars, irrVars, lboVars, mcVars, riskVars, scenVars, fnVars, hookVars>>

\* ---------------------------------------------------------------------
\* irr: Newton-Raphson on the net present value
\* ---------------------------------------------------------------------

\* The iteration cap of the for loop.
IrrMaxIter == 60

\* A convergence test that stops at |f| < 0.1.
IrrLooseTolerance == FDec(1, 10)

\* 1e-8, the convergence tolerance on |f|.
IrrTolerance == FDec(1, 100000000)

\* 1e-12, the stand-in for a zero derivative.
IrrEpsilon == FScale(FOne, -3)

\* An upper limit ten times as wide.
IrrHiLoose == FInt(50)

\* The limits of the clamp on r.
IrrLo == FDec(-95, 100)
IrrHi == FInt(5)

\* The body of "for (const x of cashflows)" for one cashflow x, with
\* q = 1 + r: denom, f += ..., df += ...
NpvAdd(acc, x, q) ==
  Ap4(LAMBDA a, y, denom, q1 :
        [f |-> FAdd(a.f, FDiv(y.cf, denom)),
         df |-> FAdd(a.df, FDiv(FMul(FInt(0 - y.t), y.cf), FMul(denom, q1)))],
      acc, x, MathPow(q, x.t), q)

RECURSIVE NpvFold(_, _, _)
NpvFold(cfs, q, n) ==
  IF n = 0 THEN [f |-> FZero, df |-> FZero]
  ELSE Ap3(NpvAdd, NpvFold(cfs, q, n - 1), cfs[n], q)

\* f and df at rate r, accumulated in cashflow order.
NpvOf(cfs, r) == Ap3(NpvFold, cfs, FAdd(FOne, r), Len(cfs))

Converged(f) == FLt(FAbs(f), IrrTolerance)

\* r - f / (df || 1e-12)
NewtonStep(r, f, df) == FSub(r, FDiv(f, OrElse(df, IrrEpsilon)))

NoRet == [k |-> "unset"]

\* Loop head with i < 60: the inner loop computes f and df.
IrrEval ==
  /\ irrPc = "loop" /\ irrI < IrrMaxIter
  /\ \E v \in {NpvOf(irrCashflows, irrR)} : irrF' = v.f /\ irrDf' = v.df
  /\ irrPc' = "test"
  /\ UNCHANGED <<irrCashflows, irrGuess, irrR, irrI, irrRet>>
  /\ UNCHANGED <<serverVars, dcfVars, lboVars, mcVars, riskVars, scenVars, fnVars, hookVars>>

\* if (Math.abs(f) < 1e-8) return r
IrrConverged ==
  /\ irrPc = "test" /\ Converged(irrF)
  /\ irrRet' = irrR
  /\ irrPc' = "done"
  /\ UNCHANGED <<irrCashflows, irrGuess, irrR, irrI, irrF, irrDf>>
  /\ UNCHANGED <<serverVars, dcfVars, lboVars, mcVars, riskVars, scenVars, fnVars, hookVars>>

\* r = r - step; if (!isFinite(r)) return NaN
IrrDiverged ==
  /\ irrPc = "test" /\ ~Converged(irrF)
  /\ ~IsFinite(NewtonStep(irrR, irrF, irrDf))
  /\ irrR' = NewtonStep(irrR, irrF, irrDf)
  /\ irrRet' = FNaN
  /\ irrPc' = "done"
  /\ UNCHANGED <<irrCashflows, irrGuess, irrI, irrF, irrDf>>
  /\ UNCHANGED <<serverVars, dcfVars, lboVars, mcVars, riskVars, scenVars, fnVars, hookVars>>

\* r = r - step; r = clamp(r, -0.95, 5); i++
IrrStep ==
  /\ irrPc = "test" /\ ~Converged(irrF)
  /\ IsFinite(NewtonStep(irrR, irrF, irrDf))
  /\ irrR' = clamp(NewtonStep(irrR, irrF, irrDf), IrrLo, IrrHi)
  /\ irrI' = irrI + 1
  /\ irrPc' = "loop"
  /\ UNCHANGED <<irrCashflows, irrGuess, irrF, irrDf, irrRet>>
  /\ UNCHANGED <<serverVars, dcfVars, lboVars, mcVars, riskVars, scenVars, fnVars, hookVars>>

\* Loop head with i = 60: the loop ends and the function returns r.
IrrExhausted ==
  /\ irrPc = "loop" /\ irrI >= IrrMaxIter
  /\ irrRet' = irrR
  /\ irrPc' = "done"
  /\ UNCHANGED <<irrCashflows, irrGuess, irrR, irrI, irrF, irrDf>>
  /\ UNCHANGED <<serverVars, dcfVars, lboVars, mcVars, riskVars, scenVars, fnVars, hookVars>>

CF(t, cf) == [t |-> t, cf |-> cf]

\* Bound on the horizon N of the two-event schedules that are expected to
\* converge; one longer schedule is kept beside them.
MaxIrrYears == 10

\* Two-event schedules [(0, -a), (N, +b)].
TwoEventSchedules ==
  {<<CF(0, FNeg(a)), CF(n, b)>> :
     a \in {FInt(100)}, b \in {FInt(110), FInt(100), FInt(10)}, n \in {1, 2, MaxIrrYears}}
  \cup {<<CF(0, FInt(-1)), CF(1, FInt(6))>>,
        <<CF(0, FInt(-1000000)), CF(3, FInt(1331000))>>,
        <<CF(0, FInt(-100)), CF(1, FInt(1000))>>,
        <<CF(0, FDec(-1, 1000)), CF(1, FDec(15, 10000))>>,
        <<CF(0, FInt(-100)), CF(2 * MaxIrrYears, FInt(100))>>}

\* Schedules whose amounts all have one sign.
OneSignSchedules ==
  {<<CF(0, FInt(100)), CF(1, FInt(110))>>,
   <<CF(0, FInt(-100)), CF(1, FInt(-110))>>,
   <<CF(0, FInt(100))>>,
   <<CF(0, FScale(FOne, 76))>>}

\* A schedule whose root, 7, lies above the clamp.
HighRootSchedules == {<<CF(0, FInt(-1)), CF(1, FInt(8))>>}

IrrSchedules == TwoEventSchedules \cup OneSignSchedules \cup HighRootSchedules

\* The default guess, the guess of lboModel, a guess at the pole r = -1 and
\* a guess above the clamp.
IrrGuesses == {FDec(20, 100), FDec(25, 100), FInt(-1), FInt(7)}

\* ---------------------------------------------------------------------
\* LBO model of the page: lboModel
\* ---------------------------------------------------------------------

\* N, as the length of the years array.
HoldYears(l) == ArrayLength(clamp(MathRound(l.holdYears), FInt(1), FInt(10)))

lboRevs(l, N) ==
  SeqOf([t \in 1..N |-> FMul(l.revenue0, MathPow(FAdd(FOne, l.revCagr), t))], N)

lboMargin(l, N) ==
  SeqOf([t \in 1..N |->
           FAdd(l.ebitdaMargin0,
                FMul(FSub(l.marginTo, l.ebitdaMargin0),
                     IF N = 1 THEN FOne ELSE FDiv(FInt(t), FInt(N))))], N)

\* An entry whose equity does not fund the fees.
LboEntryFeesUnfunded(l) ==
  LET entryEBITDA == FMul(l.revenue0, l.ebitdaMargin0)
      entryEV == FMul(entryEBITDA, l.entryMultiple)
      fees == FMul(entryEV, l.txnFeesPctEV)
      debt0 == FMul(entryEV, clamp(l.debtPctEV, FZero, FDec(95, 100)))
  IN [entryEBITDA |-> entryEBITDA, entryEV |-> entryEV, fees |-> fees,
      debt0 |-> debt0, equity0 |-> FSub(entryEV, debt0)]

\* entryEBITDA, entryEV, fees, debt0, equity0
LboEntry(l) ==
  LET entryEBITDA == FMul(l.revenue0, l.ebitdaMargin0)
      entryEV == FMul(entryEBITDA, l.entryMultiple)
      fees == FMul(entryEV, l.txnFeesPctEV)
      debt0 == FMul(entryEV, clamp(l.debtPctEV, FZero, FDec(95, 100)))
  IN [entryEBITDA |-> entryEBITDA, entryEV |-> entryEV, fees |-> fees,
      debt0 |-> debt0, equity0 |-> FSub(FAdd(entryEV, fees), debt0)]

\* da, ebit and tax of a year with revenue r and margin m.
LboTax(l, r, m) ==
  LET da == FMul(r, l.daPctRev)
      ebit == FSub(FMul(r, m), da)
  IN [da |-> da, ebit |-> ebit, tax |-> FMul(MathMax(FZero, ebit), l.taxRate)]

\* cashAfter of a year with revenue r, margin m, last year's revenue r0 and
\* beginning debt: EBITDA less tax, capex, change in NWC and interest.
CashAfter(l, debt, r, r0, m) ==
  LET ebitda == FMul(r, m)
      tax == LboTax(l, r, m).tax
      capex == FMul(r, l.capexPctRev)
      dNwc == FSub(FMul(r, l.nwcPctRev), FMul(r0, l.nwcPctRev))
      interest == FMul(debt, l.debtRate)
  IN FSub(FSub(FSub(FSub(ebitda, tax), capex), dNwc), interest)

\* A paydown that is not limited to the beginning debt.
PaydownUnclamped(amount, debt) == MathMax(FZero, amount)

\* totalPaydown
Paydown(amount, debt) == clamp(amount, FZero, debt)

\* The row of one year from the beginning debt and cashAfter; the row keeps
\* the callback's locals mandatory and sweep beside the returned fields.
LboRow(l, debt, y, cashAfter) ==
  Ap2(LAMBDA mandatory, sweep :
        [year |-> y.t, Revenue |-> y.r, EBITDA |-> FMul(y.r, y.m),
         Interest |-> FMul(debt, l.debtRate),
         Paydown |-> Paydown(FAdd(mandatory, sweep), debt),
         EndDebt |-> FSub(debt, Paydown(FAdd(mandatory, sweep), debt)),
         cashAfter |-> cashAfter, mandatory |-> mandatory, sweep |-> sweep],
      FMul(debt, clamp(l.mandatoryAmortPct, FZero, FDec(5, 10))),
      MathMax(FZero, FSub(cashAfter,
                          FMul(debt, clamp(l.mandatoryAmortPct, FZero, FDec(5, 10))))))

LboYear(l, rows, debt, y) ==
  Append(rows, Ap4(LboRow, l, debt, y, CashAfter(l, debt, y.r, y.r0, y.m)))

\* rows after the first n years; the running debt is the last EndDebt.
RECURSIVE LboRows(_, _, _, _, _)
LboRows(l, debt0, rv, mg, n) ==
  IF n = 0 THEN <<>>
  ELSE Ap4(LAMBDA l1, rows, rv1, mg1 :
             LboYear(l1, rows, IF n = 1 THEN debt0 ELSE rows[n - 1].EndDebt,
                     [t |-> n, r |-> rv1[n],
                      r0 |-> IF n = 1 THEN l1.revenue0 ELSE rv1[n - 1], m |-> mg1[n]]),
           l, LboRows(l, debt0, rv, mg, n - 1), rv, mg)

\* An exit that reports a ratio with a zero denominator as 0.
LboExitZeroRatios(l, en, rows) ==
  LET N == Len(rows)
      exitEBITDA == IF N = 0 THEN FZero ELSE rows[N].EBITDA
      exitEV == FMul(exitEBITDA, l.exitMultiple)
      exitDebt == IF N = 0 THEN en.debt0 ELSE rows[N].EndDebt
      exitEquity == FSub(exitEV, exitDebt)
  IN [N |-> N, entryEV |-> en.entryEV, fees |-> en.fees, debt0 |-> en.debt0,
      equity0 |-> en.equity0,
      exitEV |-> exitEV, exitDebt |-> exitDebt, exitEquity |-> exitEquity,
      moic |-> IF en.equity0.k = "fin" /\ en.equity0.s = 0 THEN FZero
               ELSE FDiv(exitEquity, en.equity0),
      entryLeverage |-> IF en.entryEBITDA.k = "fin" /\ en.entryEBITDA.s = 0 THEN FZero
                        ELSE FDiv(en.debt0, en.entryEBITDA),
      exitLeverage |-> IF exitEBITDA.k = "fin" /\ exitEBITDA.s = 0 THEN FZero
                       ELSE FDiv(exitDebt, exitEBITDA),
      rows |-> rows]

\* The locals of lboModel when it calls irr: the returned fields but irrEq.
LboExit(l, en, rows) ==
  LET N == Len(rows)
      exitEBITDA == IF N = 0 THEN FZero ELSE rows[N].EBITDA
      exitEV == FMul(exitEBITDA, l.exitMultiple)
      exitDebt == IF N = 0 THEN en.debt0 ELSE rows[N].EndDebt
      exitEquity == FSub(exitEV, exitDebt)
  IN [N |-> N, entryEV |-> en.entryEV, fees |-> en.fees, debt0 |-> en.debt0,
      equity0 |-> en.equity0,
      exitEV |-> exitEV, exitDebt |-> exitDebt, exitEquity |-> exitEquity,
      moic |-> IF en.equity0.k = "fin" /\ en.equity0.s = 0 THEN FNaN
               ELSE FDiv(exitEquity, en.equity0),
      entryLeverage |-> IF en.entryEBITDA.k = "fin" /\ en.entryEBITDA.s = 0 THEN FNaN
                        ELSE FDiv(en.debt0, en.entryEBITDA),
      exitLeverage |-> IF exitEBITDA.k = "fin" /\ exitEBITDA.s = 0 THEN FNaN
                       ELSE FDiv(exitDebt, exitEBITDA),
      rows |-> rows]

LboSchedule(l, N, en) ==
  Ap3(LboExit, l, en, Ap4(LAMBDA l1, d, rv, mg : LboRows(l1, d, rv, mg, N),
                          l, en.debt0, lboRevs(l, N), lboMargin(l, N)))

\* lboModel up to its call of irr, for inputs with a finite holdYears.
lboModel(l) == Ap3(LboSchedule, l, HoldYears(l), LboEntry(l))

\* The page's initial LBO inputs.
LboDefaults ==
  [holdYears |-> FInt(5), revenue0 |-> FInt(1000), ebitdaMargin0 |-> FDec(22, 100),
   entryMultiple |-> FInt(10), revCagr |-> FDec(8, 100), marginTo |-> FDec(25, 100),
   daPctRev |-> FDec(3, 100), capexPctRev |-> FDec(4, 100), nwcPctRev |-> FDec(10, 100),
   taxRate |-> FDec(25, 100), debtPctEV |-> FDec(65, 100), debtRate |-> FDec(85, 1000),
   mandatoryAmortPct |-> FDec(5, 100), exitMultiple |-> FInt(10),
   txnFeesPctEV |-> FDec(2, 100)]

\* Bound on the hold periods of the input family.
MaxHoldYears == 3

\* Inputs at the edges of the entry financing and of the exit ratios: a debt
\* share at and above the cap of 0.95 with fees of either sign (fees of -5%
\* at the cap leave no entry equity), no revenue, no entry margin, and no
\* exit margin.
LboEdgeInputs ==
  {[LboDefaults EXCEPT !.holdYears = FInt(1), !.debtPctEV = dp, !.txnFeesPctEV = fee] :
     dp \in {FDec(95, 100), FDec(15, 10)},
     fee \in {FZero, FDec(2, 100), FDec(-5, 100)}}
  \cup {[LboDefaults EXCEPT !.holdYears = FInt(2), !.revenue0 = FZero],
        [LboDefaults EXCEPT !.holdYears = FInt(2), !.ebitdaMargin0 = FZero],
        [LboDefaults EXCEPT !.holdYears = FInt(1), !.marginTo = FZero]}

\* A mandatory amortisation above the 50% cap and below 0, with capex that
\* leaves cash and capex that exhausts it.
LboAmortInputs ==
  {[LboDefaults EXCEPT !.holdYears = FInt(2), !.mandatoryAmortPct = a,
                       !.capexPctRev = cx] :
     a \in {FDec(80, 100), FDec(-10, 100)}, cx \in {FDec(4, 100), FDec(30, 100)}}

\* Inputs the page can hold: amortisation and interest on or off, light to
\* full leverage, capex that exhausts the cash, a negative entry margin, and
\* a revenue field that has been cleared (NaN).
LboInputs ==
  {[LboDefaults EXCEPT !.holdYears = FInt(n), !.mandatoryAmortPct = a, !.debtRate = dr,
                       !.debtPctEV = dp, !.capexPctRev = cx] :
     n \in 1..MaxHoldYears,
     a \in {FZero, FDec(5, 100)},
     dr \in {FZero, FDec(85, 1000)},
     dp \in {FDec(5, 100), FDec(30, 100), FDec(65, 100)},
     cx \in {FDec(4, 100), FDec(30, 100)}}
  \cup {[LboDefaults EXCEPT !.holdYears = FInt(n), !.mandatoryAmortPct = FZero,
                            !.debtRate = FZero, !.ebitdaMargin0 = FDec(-10, 100)] :
          n \in 1..2}
  \cup {[LboDefaults EXCEPT !.revenue0 = FNaN]}
  \cup LboEdgeInputs \cup LboAmortInputs

\* A render of the page evaluates lboModel on the current inputs: the
\* schedule and the exit are computed and irr is called on
\* [(0, -equity0), (N, exitEquity)] with the guess 0.25.
LboCall ==
  /\ lboFrame = NoLbo /\ irrPc = "idle"
  /\ \E fr \in {lboModel(lbo)} :
       /\ lboFrame' = fr
       /\ irrCashflows' = <<[t |-> 0, cf |-> FNeg(fr.equity0)],
                            [t |-> fr.N, cf |-> fr.exitEquity]>>
  /\ irrGuess' = FDec(25, 100)
  /\ irrR' = FDec(25, 100)
  /\ irrI' = 0
  /\ irrPc' = "loop"
  /\ UNCHANGED <<irrF, irrDf, irrRet, lbo, lboMemo>>
  /\ UNCHANGED <<serverVars, dcfVars, mcVars, riskVars, scenVars, fnVars, hookVars>>

\* irr has returned: lboModel returns its fields with irrEq.
LboReturn ==
  /\ lboFrame # NoLbo /\ lboMemo = NoLbo /\ irrPc = "done"
  /\ lboMemo' = [f \in DOMAIN lboFrame \cup {"irrEq"} |->
                   IF f = "irrEq" THEN irrRet ELSE lboFrame[f]]
  /\ UNCHANGED <<lbo, lboFrame>>
  /\ UNCHANGED <<serverVars, dcfVars, irrVars, mcVars, riskVars, scenVars, fnVars, hookVars>>

\* ---------------------------------------------------------------------
\* logNormalMonteCarlo
\* ---------------------------------------------------------------------

\* The series 1 + x + x^2/2! + ... summed until a term no longer changes it.
RECURSIVE ExpSeries(_, _, _, _)
ExpSeries(x, term, sum, j) ==
  IF FAdd(sum, term) = sum \/ j > 60 THEN sum
  ELSE Ap4(ExpSeries, x, FDiv(FMul(term, x), FInt(j)), FAdd(sum, term), j + 1)

ExpV(x) ==
  IF x.k = "nan" THEN FNaN
  ELSE IF x.k = "inf" THEN (IF x.s > 0 THEN x ELSE FZero)
  ELSE Ap4(ExpSeries, x, FOne, FZero, 1)

\* Math.exp, for arguments of moderate size.
MathExp(x) == Ap1(ExpV, x)

\* A step that advances by the whole horizon instead of dt.
PathStepWholeHorizon(a, s, z) ==
  FMul(s, MathExp(FAdd(FMul(FSub(a.mu, FMul(FMul(FHalf, a.sigma), a.sigma)), a.years),
                       FMul(FMul(a.sigma, MathSqrt(a.years)), z))))

\* One step of a path: s * exp((mu - 0.5*sigma*sigma)*dt + sigma*sqrt(dt)*z).
PathStep(a, s, z) ==
  Ap2(LAMBDA dt, s1 :
        FMul(s1, MathExp(FAdd(FMul(FSub(a.mu, FMul(FMul(FHalf, a.sigma), a.sigma)), dt),
                              FMul(FMul(a.sigma, MathSqrt(dt)), z)))),
      FDiv(a.years, FInt(a.steps)), s)

RECURSIVE InsertV(_, _)
InsertV(xs, x) ==
  IF xs = <<>> \/ ~FLt(x, xs[Len(xs)]) THEN Append(xs, x)
  ELSE Append(Ap2(InsertV, SubSeq(xs, 1, Len(xs) - 1), x), xs[Len(xs)])

RECURSIVE SortV(_, _)
SortV(xs, n) == IF n = 0 THEN <<>> ELSE Ap2(InsertV, SortV(xs, n - 1), xs[n])

\* paths.sort((a, b) => a - b)
SortAll(xs) == SortV(xs, Len(xs))
SortAscending(xs) == Ap1(SortAll, xs)

\* q(p): paths[Math.floor(clamp(p, 0, 0.9999) * paths.length)]
Quantile(sorted, p) ==
  sorted[FloorInt(FMul(clamp(p, FZero, FDec(9999, 10000)), FInt(Len(sorted)))) + 1]

Summary(sorted) ==
  [mean |-> FDiv(Sum(sorted), FInt(Len(sorted))),
   p05 |-> Quantile(sorted, FDec(5, 100)),
   p50 |-> Quantile(sorted, FDec(5, 10)),
   p95 |-> Quantile(sorted, FDec(95, 100))]

NoSummary == [mean |-> NoRet]

\* Inner loop body: two uniform draws make the normal variate z, taken here
\* from a few values of either sign.
McStep ==
  /\ mcPc = "path" /\ mcI < mcArgs.steps
  /\ \E z \in {FDec(-3, 2), FDec(6, 5)} : mcS' = PathStep(mcArgs, mcS, z)
  /\ mcI' = mcI + 1
  /\ UNCHANGED <<mcArgs, mcK, mcPaths, mcPc, mcOut>>
  /\ UNCHANGED <<serverVars, dcfVars, irrVars, lboVars, riskVars, scenVars, fnVars, hookVars>>

\* paths.push(s), then the next path starts from s0 or the loop over k ends.
McPush ==
  /\ mcPc = "path" /\ mcI >= mcArgs.steps
  /\ mcPaths' = Append(mcPaths, mcS)
  /\ mcK' = mcK + 1
  /\ mcS' = mcArgs.s0
  /\ mcI' = 0
  /\ mcPc' = IF mcK + 1 < mcArgs.n THEN "path" ELSE "sort"
  /\ UNCHANGED <<mcArgs, mcOut>>
  /\ UNCHANGED <<serverVars, dcfVars, irrVars, lboVars, riskVars, scenVars, fnVars, hookVars>>

\* Sort the paths in place and return mean, p05, p50 and p95.
McSummarise ==
  /\ mcPc = "sort"
  /\ \E sorted \in {SortAscending(mcPaths)} :
       /\ mcPaths' = sorted
       /\ mcOut' = Summary(sorted)
  /\ mcPc' = "done"
  /\ UNCHANGED <<mcArgs, mcK, mcI, mcS>>
  /\ UNCHANGED <<serverVars, dcfVars, irrVars, lboVars, riskVars, scenVars, fnVars, hookVars>>

\* Bounds on the number of paths and of steps per path.
MaxPaths == 3
MaxSteps == 2

McArgs(s0, mu, sigma, years, steps, n) ==
  [s0 |-> s0, mu |-> mu, sigma |-> sigma, years |-> years, steps |-> steps, n |-> n]

\* Calls without volatility over a positive, a zero, a fractional and a
\* negative horizon, and calls with volatility.
McCalls ==
  {McArgs(s0, mu, FZero, y, st, n) :
     s0 \in {FInt(100), FDec(1, 10)}, mu \in {FDec(10, 100), FDec(-5, 100)},
     y \in {FInt(1), FDec(1, 2), FZero, FInt(-1)}, st \in {1, MaxSteps}, n \in {1, MaxPaths}}
  \cup {McArgs(FInt(100), FDec(10, 100), FDec(25, 100), FInt(1), st, 2) : st \in {1, MaxSteps}}

\* ---------------------------------------------------------------------
\* Risk tools of the page: riskModel
\* ---------------------------------------------------------------------

\* x === 0
IsZero(x) == x.k = "fin" /\ x.s = 0

\* z: the normal quantile of the confidence level, by thresholds.
ZScore(confidence) ==
  IF FGe(confidence, FDec(99, 100)) THEN FDec(2326, 1000)
  ELSE IF FGe(confidence, FDec(975, 1000)) THEN FDec(196, 100)
  ELSE IF FGe(confidence, FDec(95, 100)) THEN FDec(1645, 1000)
  ELSE IF FGe(confidence, FDec(9, 10)) THEN FDec(1282, 1000)
  ELSE FOne

\* A value at risk that takes the square root of horizon times position.
VarAmtUnderRoot(r) ==
  FMul(FMul(ZScore(r.confidence), r.volatility),
       MathSqrt(FMul(r.horizonYears, r.capital)))

\* varAmt = z * volatility * Math.sqrt(horizonYears) * position, with
\* position = capital.
VarAmt(r) ==
  FMul(FMul(FMul(ZScore(r.confidence), r.volatility), MathSqrt(r.horizonYears)),
       r.capital)

\* A raw Kelly fraction that divides by a zero variance.
KellyRawUnguarded(r) == FDiv(r.expReturn, FMul(r.volatility, r.volatility))

\* kellyRaw
KellyRaw(r) ==
  IF IsZero(r.volatility) THEN FNaN
  ELSE FDiv(r.expReturn, FMul(r.volatility, r.volatility))

\* The locals of riskModel when it calls logNormalMonteCarlo.
RiskFigures(r) ==
  Ap2(LAMBDA kellyRaw, varAmt :
        Ap1(LAMBDA kelly :
              [z |-> ZScore(r.confidence), varAmt |-> varAmt, kellyRaw |-> kellyRaw,
               kelly |-> kelly,
               shares |-> IF FGt(r.price, FZero)
                          THEN FDiv(FMul(r.capital, kelly), r.price) ELSE FNaN],
            clamp(FMul(kellyRaw, r.kellyFraction), FZero, FInt(2))),
      KellyRaw(r), VarAmt(r))

\* The number of iterations of "for (i = 0; i < steps; i++)" for
\* steps = Math.max(1, Math.round(horizonYears)): none when steps is NaN.
StepCount(horizonYears) == ArrayLength(MathMax(FInt(1), MathRound(horizonYears)))

\* The page's initial risk inputs.
RiskDefaults ==
  [capital |-> FInt(1000000), price |-> FInt(100), volatility |-> FDec(25, 100),
   expReturn |-> FDec(10, 100), horizonYears |-> FInt(1), confidence |-> FDec(95, 100),
   kellyFraction |-> FDec(25, 100)]

\* Inputs of the position sizing: a price that is positive, 0 and negative,
\* and an expected return that is moderate, negative and large enough for
\* the cap of 2, with and without volatility.
KellyInputs ==
  {[RiskDefaults EXCEPT !.price = p, !.expReturn = mv[1], !.volatility = mv[2]] :
     p \in {FInt(100), FZero, FInt(-5)},
     mv \in {<<FDec(10, 100), FDec(25, 100)>>, <<FDec(-10, 100), FDec(25, 100)>>,
             <<FInt(2), FDec(25, 100)>>, <<FDec(10, 100), FZero>>}}

\* Inputs the page can hold: capitals of several magnitudes, the confidence
\* bands, and horizons that are whole, fractional and negative, with and
\* without volatility.
RiskInputs ==
  {[RiskDefaults EXCEPT !.capital = c, !.confidence = q, !.volatility = vh[1],
                        !.horizonYears = vh[2]] :
     c \in {FInt(1000000), FZero, FInt(3), FDec(1234567, 100)},
     q \in {FDec(95, 100), FDec(99, 100), FDec(5, 10)},
     vh \in {<<FDec(25, 100), FInt(1)>>, <<FDec(25, 100), FDec(25, 100)>>,
             <<FZero, FInt(1)>>, <<FDec(25, 100), FInt(-1)>>}}
  \cup {[RiskDefaults EXCEPT !.capital = FInt(3), !.volatility = FDec(3, 10),
                             !.horizonYears = FInt(2)]}
  \cup KellyInputs

NoRisk == [z |-> NoRet]

\* A render of the page evaluates riskModel on the current inputs: z, varAmt,
\* kelly and shares are computed and logNormalMonteCarlo is called.  The
\* 2500 paths of the call are capped at MaxPaths.
RiskCall ==
  /\ riskFrame = NoRisk /\ mcPc = "idle"
  /\ riskFrame' = RiskFigures(risk)
  /\ mcArgs' = McArgs(risk.capital, risk.expReturn, risk.volatility, risk.horizonYears,
                      StepCount(risk.horizonYears), MaxPaths)
  /\ mcK' = 0 /\ mcI' = 0 /\ mcS' = risk.capital /\ mcPaths' = <<>>
  /\ mcPc' = "path"
  /\ UNCHANGED <<mcOut, risk, riskMemo>>
  /\ UNCHANGED <<serverVars, dcfVars, irrVars, lboVars, scenVars, fnVars, hookVars>>

\* logNormalMonteCarlo has returned: riskModel returns its fields with mc and
\* dist.
RiskReturn ==
  /\ riskFrame # NoRisk /\ riskMemo = NoRisk /\ mcPc = "done"
  /\ riskMemo' = [z |-> riskFrame.z, varAmt |-> riskFrame.varAmt,
                  kellyRaw |-> riskFrame.kellyRaw, kelly |-> riskFrame.kelly,
                  shares |-> riskFrame.shares, mc |-> mcOut,
                  dist |-> <<[k |-> "P05", v |-> mcOut.p05], [k |-> "P50", v |-> mcOut.p50],
                             [k |-> "P95", v |-> mcOut.p95], [k |-> "Mean", v |-> mcOut.mean]>>]
  /\ UNCHANGED <<risk, riskFrame>>
  /\ UNCHANGED <<serverVars, dcfVars, irrVars, lboVars, mcVars, scenVars, fnVars, hookVars>>

\* ---------------------------------------------------------------------
\* Scenario store: POST /api/scenarios and GET, PUT, DELETE on an id
\* ---------------------------------------------------------------------

\* The ids the database can give out; create gives each out at most once
\* (cuid), so the id of a deleted record does not come back.
ScenarioIds == {"s1", "s2"}

Absent == [absent |-> "yes"]
Deleted == [absent |-> "deleted"]
IsPresent(rec) == "id" \in DOMAIN rec

\* A request body that is not JSON, and the JSON object {}.
Malformed == [malformed |-> "yes"]
EmptyBody == [f \in {} |-> ""]
IsMalformed(b) == "malformed" \in DOMAIN b

\* Bodies of PUT: fields to change; "null" is the JSON null, which the
\* required JSON column inputs does not take.
PutBodies ==
  {Malformed, EmptyBody, [name |-> "Bull"], [inputs |-> "years=7"],
   [kind |-> "LBO", currency |-> "EUR"], [inputs |-> "null"]}

\* Bodies of POST: name, kind and inputs are required.
CreateBodies ==
  {Malformed, EmptyBody, [name |-> "Base", kind |-> "DCF", inputs |-> "years=5"],
   [name |-> "Base", kind |-> "DCF", currency |-> "EUR", inputs |-> "years=5"],
   [name |-> "Base", inputs |-> "years=5"]}

NoScReq == [method |-> "none"]
NoScResp == [ok |-> FALSE, status |-> 0]
NotFound == [ok |-> FALSE, status |-> 404, error |-> "Not found"]
BadRequest == [ok |-> FALSE, status |-> 400, error |-> "Bad request"]
Found(item) == [ok |-> TRUE, status |-> 200, item |-> item]

\* The database stops or starts answering.
DbToggle ==
  /\ dbUp' = ~dbUp
  /\ UNCHANGED <<store, scReq, scResp>>
  /\ UNCHANGED <<serverVars, dcfVars, irrVars, lboVars, mcVars, riskVars, fnVars, hookVars>>

\* POST /api/scenarios: prisma.scenario.create with a fresh id.
ScenarioCreate ==
  /\ \E b \in CreateBodies :
       /\ scReq' = [method |-> "POST", body |-> b]
       /\ IF IsMalformed(b)
          THEN scResp' = BadRequest /\ store' = store
          ELSE IF ~({"name", "kind", "inputs"} \subseteq DOMAIN b)
          THEN /\ scResp' = [ok |-> FALSE, status |-> 400,
                              error |-> "name, kind, inputs are required"]
               /\ store' = store
          ELSE IF ~dbUp
          THEN scResp' = BadRequest /\ store' = store
          ELSE \E id \in ScenarioIds :
                 /\ store[id] = Absent
                 /\ \E item \in {[id |-> id, name |-> b.name, kind |-> b.kind,
                                   currency |-> IF "currency" \in DOMAIN b
                                                THEN b.currency ELSE "USD",
                                   inputs |-> b.inputs]} :
                      /\ store' = [store EXCEPT ![id] = item]
                      /\ scResp' = Found(item)
  /\ UNCHANGED dbUp
  /\ UNCHANGED <<serverVars, dcfVars, irrVars, lboVars, mcVars, riskVars, fnVars, hookVars>>

\* GET /api/scenarios/[id]: findUnique returns the record or null, and
\* throws when the database does not answer.
ScenarioGet ==
  /\ \E id \in ScenarioIds :
       /\ scReq' = [method |-> "GET", id |-> id]
       /\ scResp' = IF ~dbUp THEN BadRequest
                    ELSE IF ~IsPresent(store[id]) THEN NotFound
                    ELSE Found(store[id])
  /\ UNCHANGED <<store, dbUp>>
  /\ UNCHANGED <<serverVars, dcfVars, irrVars, lboVars, mcVars, riskVars, fnVars, hookVars>>

\* data of PUT: the fields of the body that are defined; a malformed body
\* is read as {}.
PutData(b) == IF IsMalformed(b) THEN EmptyBody ELSE b

\* prisma.scenario.update: throws on data the schema does not take, when the
\* database does not answer, and when the record does not exist.
UpdateThrows(st, up, id, data) ==
  \/ ("inputs" \in DOMAIN data /\ data.inputs = "null")
  \/ ~up
  \/ ~IsPresent(st[id])

\* PUT /api/scenarios/[id]
ScenarioPut ==
  /\ \E id \in ScenarioIds, b \in PutBodies :
       /\ scReq' = [method |-> "PUT", id |-> id, body |-> b]
       /\ IF UpdateThrows(store, dbUp, id, PutData(b))
          THEN scResp' = NotFound /\ store' = store
          ELSE \E item \in {[f \in DOMAIN store[id] |->
                               IF f \in DOMAIN PutData(b) THEN PutData(b)[f]
                               ELSE store[id][f]]} :
                 /\ store' = [store EXCEPT ![id] = item]
                 /\ scResp' = Found(item)
  /\ UNCHANGED dbUp
  /\ UNCHANGED <<serverVars, dcfVars, irrVars, lboVars, mcVars, riskVars, fnVars, hookVars>>

\* DELETE /api/scenarios/[id]: delete throws when the database does not
\* answer and when the record does not exist.
ScenarioDelete ==
  /\ \E id \in ScenarioIds :
       /\ scReq' = [method |-> "DELETE", id |-> id]
       /\ IF ~dbUp \/ ~IsPresent(store[id])
          THEN scResp' = NotFound /\ store' = store
          ELSE /\ store' = [store EXCEPT ![id] = Deleted]
               /\ scResp' = [ok |-> TRUE, status |-> 200]
  /\ UNCHANGED dbUp
  /\ UNCHANGED <<serverVars, dcfVars, irrVars, lboVars, mcVars, riskVars, fnVars, hookVars>>

\* The second copy of the id routes. Its handlers read the same table; a
\* request they serve is marked route "second".

\* An exception that leaves a handler: the framework answers 500.
ServerError == [ok |-> FALSE, status |-> 500]

\* GET (second copy): no try, so a database that does not answer is an
\* exception that leaves the handler.
ScenarioGetSecond ==
  /\ \E id \in ScenarioIds :
       /\ scReq' = [method |-> "GET", id |-> id, route |-> "second"]
       /\ scResp' = IF ~dbUp THEN ServerError
                    ELSE IF ~IsPresent(store[id]) THEN NotFound
                    ELSE Found(store[id])
  /\ UNCHANGED <<store, dbUp>>
  /\ UNCHANGED <<serverVars, dcfVars, irrVars, lboVars, mcVars, riskVars, fnVars, hookVars>>

\* data of PUT (second copy): name, currency and inputs of the body where
\* they are truthy; kind is not read, and null, "" and 0 are skipped.
Falsy == {"null", ""}
PutDataSecond(b) ==
  [f \in {g \in DOMAIN b \cap {"name", "currency", "inputs"} : b[g] \notin Falsy}
     |-> b[f]]

\* PUT (second copy): req.json() throws on a malformed body and update
\* throws on a missing record; both are answered 400 Bad request.
ScenarioPutSecond ==
  /\ \E id \in ScenarioIds, b \in PutBodies :
       /\ scReq' = [method |-> "PUT", id |-> id, body |-> b, route |-> "second"]
       /\ IF IsMalformed(b) \/ UpdateThrows(store, dbUp, id, PutDataSecond(b))
          THEN scResp' = BadRequest /\ store' = store
          ELSE \E item \in {[f \in DOMAIN store[id] |->
                               IF f \in DOMAIN PutDataSecond(b)
                               THEN PutDataSecond(b)[f]
                               ELSE store[id][f]]} :
                 /\ store' = [store EXCEPT ![id] = item]
                 /\ scResp' = Found(item)
  /\ UNCHANGED dbUp
  /\ UNCHANGED <<serverVars, dcfVars, irrVars, lboVars, mcVars, riskVars, fnVars, hookVars>>

\* DELETE (second copy): no try, so the exception of delete on a missing
\* record, or on a database that does not answer, leaves the handler.
ScenarioDeleteSecond ==
  /\ \E id \in ScenarioIds :
       /\ scReq' = [method |-> "DELETE", id |-> id, route |-> "second"]
       /\ IF ~dbUp \/ ~IsPresent(store[id])
          THEN scResp' = ServerError /\ store' = store
          ELSE /\ store' = [store EXCEPT ![id] = Deleted]
               /\ scResp' = [ok |-> TRUE, status |-> 200]
  /\ UNCHANGED dbUp
  /\ UNCHANGED <<serverVars, dcfVars, irrVars, lboVars, mcVars, riskVars, fnVars, hookVars>>

\* ---------------------------------------------------------------------
\* Helper functions of the page: clamp and expSmooth, one call at a time
\* ---------------------------------------------------------------------

\* out[i] = alpha * series[i] + (1 - alpha) * out[i - 1], for the first n
\* entries of a non-empty series.
RECURSIVE SmoothV(_, _, _)
SmoothV(series, alpha, n) ==
  IF n = 1 THEN <<series[1]>>
  ELSE Ap2(LAMBDA prev, a :
             Append(prev, FAdd(FMul(a, series[n]), FMul(FSub(FOne, a), prev[n - 1]))),
           SmoothV(series, alpha, n - 1), alpha)

expSmooth(series, alpha) ==
  IF Len(series) = 0 THEN <<>> ELSE Ap3(SmoothV, series, alpha, Len(series))

NoCall == [fn |-> "none"]
NotReturned == [done |-> FALSE]
Returned(v) == [done |-> TRUE, v |-> v]

\* clamp(x, a, b) is called and returns.
CallClamp ==
  /\ call.fn = "clamp" /\ ~ret.done
  /\ ret' = Returned(clamp(call.x, call.a, call.b))
  /\ UNCHANGED call
  /\ UNCHANGED <<serverVars, dcfVars, irrVars, lboVars, mcVars, riskVars, scenVars, hookVars>>

\* expSmooth(series, alpha) is called and returns.
CallExpSmooth ==
  /\ call.fn = "expSmooth" /\ ~ret.done
  /\ ret' = Returned(expSmooth(call.series, call.alpha))
  /\ UNCHANGED call
  /\ UNCHANGED <<serverVars, dcfVars, irrVars, lboVars, mcVars, riskVars, scenVars, hookVars>>

\* The limits clamp is called with in the page and the request handler
\* (the last three are the limits 0 and debt of the paydown for a positive,
\* a zero and a negative beginning debt), and arguments below, at, inside
\* and above them, infinite and NaN.
ClampLimits ==
  {<<FZero, FDec(95, 100)>>, <<FInt(1), FInt(15)>>, <<FDec(-95, 100), FInt(5)>>,
   <<FDec(1, 100), FDec(5, 10)>>, <<FZero, FInt(110)>>, <<FZero, FZero>>,
   <<FZero, FInt(-650)>>}

ClampCalls ==
  {[fn |-> "clamp", x |-> x, a |-> ab[1], b |-> ab[2]] :
     x \in {FInt(-650), FDec(-95, 100), FZero, FDec(1, 100), FDec(5, 10), FInt(1),
            FInt(131), FInf(1), FInf(-1), FNaN},
     ab \in ClampLimits}

\* Bound on the length of the smoothed series.
MaxSeries == 3

SmoothSeries ==
  {SeqOf([j \in 1..n |-> FInt(1000 + 100 * j * j)], n) : n \in 0..MaxSeries}

SmoothCalls ==
  {[fn |-> "expSmooth", series |-> s, alpha |-> al] :
     s \in SmoothSeries,
     al \in {FDec(35, 100), FDec(5, 100), FDec(95, 100), FZero, FOne, FDec(15, 10),
             FDec(-5, 10), FNaN}}

\* ---------------------------------------------------------------------
\* useDebouncedCallback: the hook, the window's timers and the clock
\* ---------------------------------------------------------------------

\* Bounds on the calls of the debounced function and on the clock.
MaxCalls == 3
MaxTime == 4

\* Arguments of the calls and the delays (delayMs) of the renders.
CallArgs == {"a", "b"}
Delays == {1, 2}

\* A clearTimeout that cancels nothing.
ClearNothing(ts, id) == ts

\* if (timeoutRef.current) window.clearTimeout(timeoutRef.current): the
\* timers left in the window; the id of a timer that has fired, and null,
\* cancel nothing.
ClearTimeout(ts, id) == IF id # 0 THEN {t \in ts : t.id # id} ELSE ts

\* The time from which the timer of call c may fire.
DueAt(c) == calls[c].at + calls[c].delayMs

\* The function the hook returns is called with args: the timer of
\* timeoutRef is cleared and a new one is set, whose id goes to timeoutRef.
\* The window hands out the ids 1, 2, 3, ...; the component may be unmounted.
DebouncedCall ==
  /\ Len(calls) < MaxCalls
  /\ \E args \in CallArgs, delayMs \in Delays :
       calls' = Append(calls, [args |-> args, delayMs |-> delayMs, at |-> now,
                               mounted |-> mounted])
  /\ timers' = ClearTimeout(timers, timeoutRef)
                  \cup {[id |-> Len(calls) + 1, call |-> Len(calls) + 1]}
  /\ timeoutRef' = Len(calls) + 1
  /\ UNCHANGED <<now, invoked, mounted>>
  /\ UNCHANGED <<serverVars, dcfVars, irrVars, lboVars, mcVars, riskVars, scenVars,
                 fnVars, pollVars, marketVars>>

\* A timer whose delay has passed runs its callback () => fn(...args), at
\* the due time or later.  timeoutRef keeps the id.
TimerFires ==
  /\ \E t \in timers :
       /\ now >= DueAt(t.call)
       /\ timers' = timers \ {t}
       /\ invoked' = Append(invoked, [call |-> t.call, args |-> calls[t.call].args,
                                      at |-> now, mounted |-> mounted])
  /\ UNCHANGED <<timeoutRef, now, calls, mounted>>
  /\ UNCHANGED <<serverVars, dcfVars, irrVars, lboVars, mcVars, riskVars, scenVars,
                 fnVars, pollVars, marketVars>>

\* A millisecond passes.
Tick ==
  /\ now < MaxTime
  /\ now' = now + 1
  /\ UNCHANGED <<timeoutRef, timers, calls, invoked, mounted>>
  /\ UNCHANGED <<serverVars, dcfVars, irrVars, lboVars, mcVars, riskVars, scenVars,
                 fnVars, pollVars, marketVars>>

\* The component unmounts: the cleanup of the effect clears the timer of
\* timeoutRef.
Unmount ==
  /\ mounted
  /\ mounted' = FALSE
  /\ timers' = ClearTimeout(timers, timeoutRef)
  /\ UNCHANGED <<timeoutRef, now, calls, invoked>>
  /\ UNCHANGED <<serverVars, dcfVars, irrVars, lboVars, mcVars, riskVars, scenVars,
                 fnVars, pollVars, marketVars>>

\* ---------------------------------------------------------------------
\* The market poll of the page: fetchMarkets on mount, every 15 s, on Refresh
\* ---------------------------------------------------------------------

\* Bound on the calls of fetchMarkets.
MaxFetches == 4

\* The body the route answers the n-th call with: the quotes as of that call.
PollBody(n) ==
  [updatedAt |-> ToString(n), indices |-> <<[id |-> "spx", last |-> 4500 + n]>>]

\* fetchMarkets is called (by the mount effect, by the interval, or by the
\* Refresh button) and runs up to its await of fetch.
FetchMarkets ==
  /\ started < MaxFetches
  /\ marketsStatus' = IF marketsStatus = "ok" THEN "ok" ELSE "loading"
  /\ started' = started + 1
  /\ inflight' = inflight \cup {started + 1}
  /\ UNCHANGED <<markets, marketsUpdatedAt>>
  /\ UNCHANGED <<serverVars, dcfVars, irrVars, lboVars, mcVars, riskVars, scenVars,
                 fnVars, debounceVars, marketVars>>

\* The response of a call arrives with res.ok: the call goes on after its
\* awaits and sets markets, marketsUpdatedAt and marketsStatus.
FetchResolves ==
  /\ \E n \in inflight :
       /\ inflight' = inflight \ {n}
       /\ markets' = PollBody(n).indices
       /\ marketsUpdatedAt' = PollBody(n).updatedAt
  /\ marketsStatus' = "ok"
  /\ UNCHANGED started
  /\ UNCHANGED <<serverVars, dcfVars, irrVars, lboVars, mcVars, riskVars, scenVars,
                 fnVars, debounceVars, marketVars>>

\* fetch rejects, or the response is not ok: the catch sets the status.
FetchRejects ==
  /\ \E n \in inflight : inflight' = inflight \ {n}
  /\ marketsStatus' = "error"
  /\ UNCHANGED <<markets, marketsUpdatedAt, started>>
  /\ UNCHANGED <<serverVars, dcfVars, irrVars, lboVars, mcVars, riskVars, scenVars,
                 fnVars, debounceVars, marketVars>>

\* ---------------------------------------------------------------------
\* GET /api/markets: parseStooqCsv, fetchIndex, GET
\* ---------------------------------------------------------------------

INDICES ==
  <<[id |-> "spx", name |-> "S&P 500", symbol |-> "^spx", currency |-> "USD"],
    [id |-> "dji", name |-> "Dow Jones", symbol |-> "^dji", currency |-> "USD"],
    [id |-> "dax", name |-> "DAX", symbol |-> "^dax", currency |-> "EUR"],
    [id |-> "hsi", name |-> "Hang Seng", symbol |-> "^hsi", currency |-> "HKD"]>>

\* Bound on the closes a CSV text holds, and the length of the longest text.
MaxClose == 60
MaxRows == 32

\* The points kept of a series.
SeriesLength == 30

\* Number(text) on a column: 0 for the empty text, the number of a decimal
\* numeral, NaN for anything else.
NumberOf(text) ==
  IF text = "" THEN [k |-> "num", v |-> 0]
  ELSE IF \E n \in 0..MaxClose : ToString(n) = text
  THEN [k |-> "num", v |-> CHOOSE n \in 0..MaxClose : ToString(n) = text]
  ELSE [k |-> "nan"]

\* A text is its lines, a line is its columns, an empty line is <<>>.
\* parseStooqCsv: the date and the close of every line after the first that
\* has five columns, a date and a finite close; nothing for fewer than
\* three lines.
parseStooqCsv(text) ==
  LET lines == SelectSeq(text, LAMBDA l : l # <<>>)
      kept == SelectSeq(SubSeq(lines, 2, Len(lines)),
                        LAMBDA cols : /\ Len(cols) >= 5
                                      /\ cols[1] # ""
                                      /\ NumberOf(cols[5]).k = "num")
  IN IF Len(lines) < 3 THEN <<>>
     ELSE [i \in 1..Len(kept) |-> [date |-> kept[i][1], close |-> NumberOf(kept[i][5]).v]]

\* A slice that keeps every row.
AllRows(rows, n) == rows

\* rows.slice(-n)
LastRows(rows, n) ==
  IF Len(rows) <= n THEN rows ELSE SubSeq(rows, Len(rows) - n + 1, Len(rows))

\* What a URL of the quote source answers: a text, or a failure of fetch
\* (a rejection or a status that is not ok).
Failed == [ok |-> FALSE]
Text(lines) == [ok |-> TRUE, text |-> lines]

Thrown == [k |-> "throws"]
Null == [k |-> "null"]
NaN == [k |-> "nan"]
Num(n) == [k |-> "num", v |-> n]

\* The object fetchIndex returns for two or more parsed rows: last, prev,
\* chg, chgPct (the pair chg, prev; undefined for prev = 0), asOf, series.
QuoteOf(rows) ==
  LET last == rows[Len(rows)].close
      prev == rows[Len(rows) - 1].close
      kept == LastRows(rows, SeriesLength)
      quote == [last |-> Num(last), prev |-> prev, chg |-> last - prev,
                asOf |-> rows[Len(rows)].date,
                series |-> [j \in 1..Len(kept) |-> [d |-> kept[j].date, c |-> kept[j].close]]]
  IN [k |-> "data",
      data |-> IF prev # 0 THEN quote @@ [chgPct |-> <<last - prev, prev>>] ELSE quote]

QuoteOrNull(rows) == IF Len(rows) < 2 THEN Null ELSE QuoteOf(rows)

\* fetchIndex on the answers f.range and f.fallback of the two URLs: the
\* fallback is tried when the range URL fails; it throws when both fail and
\* returns null for fewer than two parsed rows.
fetchIndex(f) ==
  IF f.range.ok THEN Ap1(QuoteOrNull, parseStooqCsv(f.range.text))
  ELSE IF f.fallback.ok THEN Ap1(QuoteOrNull, parseStooqCsv(f.fallback.text))
  ELSE Thrown

\* One element of results: { ...idx, ...data }, or { ...idx, last: NaN } for
\* null and for an exception.
ResultOf(idx, r) == IF r.k = "data" THEN r.data @@ idx ELSE [last |-> NaN] @@ idx

\* JSON.stringify of an element: NaN is written null.
Json(entry) == [entry EXCEPT !.last = IF @ = NaN THEN Null ELSE @]

NoBody == [updatedAt |-> ""]

\* The body of the response to the answers fs of the quote source.
BodyOf(fs) ==
  [updatedAt |-> "now",
   indices |-> [i \in 1..Len(INDICES) |-> Json(Ap2(ResultOf, INDICES[i], fetchIndex(fs[i])))]]

\* Texts of the quote source.
Header == <<"Date", "Open", "High", "Low", "Close", "Volume">>
Row(date, close) == <<date, "1", "2", "0", close, "9">>

\* Three good rows; MaxRows good rows; the text for an unknown symbol; one
\* row between empty lines; and a text with a short row, a close that is
\* no number, a row without date and an empty close.
GoodText == <<Header, Row("d1", "40"), Row("d2", "44"), Row("d3", "48")>>
LongText == <<Header>> \o [j \in 1..MaxRows |-> Row(ToString(j), ToString(j))]
NoDataText == <<<<"No data">>>>
OneRowText == <<Header, <<>>, Row("d1", "40"), <<>>>>
DirtyText ==
  <<Header, Row("d1", "40"), <<"d2", "1", "2">>, Row("d3", "N/D"), Row("", "45"),
    Row("d5", ""), <<>>, Row("d6", "50")>>

FeedCases ==
  {[range |-> Text(GoodText), fallback |-> Failed],
   [range |-> Failed, fallback |-> Text(LongText)],
   [range |-> Failed, fallback |-> Failed],
   [range |-> Text(NoDataText), fallback |-> Text(GoodText)],
   [range |-> Text(OneRowText), fallback |-> Failed],
   [range |-> Text(DirtyText), fallback |-> Text(GoodText)]}

\* GET /api/markets
MarketsGet ==
  /\ marketsBody = NoBody
  /\ marketsBody' = BodyOf(feed)
  /\ UNCHANGED feed
  /\ UNCHANGED <<serverVars, dcfVars, irrVars, lboVars, mcVars, riskVars, scenVars,
                 fnVars, debounceVars, pollVars>>

\* ---------------------------------------------------------------------
\* Specifications
\* ---------------------------------------------------------------------

RiskIdle == risk = RiskDefaults /\ riskFrame = NoRisk /\ riskMemo = NoRisk
ScenIdle ==
  /\ store = [id \in ScenarioIds |-> Absent] /\ dbUp = TRUE
  /\ scReq = NoScReq /\ scResp = NoScResp
FnIdle == call = NoCall /\ ret = NotReturned
DebounceIdle ==
  /\ timeoutRef = 0 /\ timers = {} /\ now = 0 /\ calls = <<>> /\ invoked = <<>>
  /\ mounted = TRUE
PollIdle ==
  /\ markets = <<>> /\ marketsUpdatedAt = "" /\ marketsStatus = "idle"
  /\ inflight = {} /\ started = 0
MarketIdle == feed = <<>> /\ marketsBody = NoBody
HookIdle == DebounceIdle /\ PollIdle /\ MarketIdle
RestIdle == RiskIdle /\ ScenIdle /\ FnIdle /\ HookIdle

ServerIdle == req = NoReq /\ out = NoOut /\ resp = NoResp
DcfIdle == dcf = DcfExample /\ dcfMemo = NoMemo
IrrIdle ==
  /\ irrCashflows = <<>> /\ irrGuess = FDec(20, 100) /\ irrR = FDec(20, 100)
  /\ irrI = 0 /\ irrF = FZero /\ irrDf = FZero /\ irrPc = "idle" /\ irrRet = NoRet
LboIdle == lbo = LboDefaults /\ lboFrame = NoLbo /\ lboMemo = NoLbo
McIdle ==
  /\ mcArgs = McArgs(FInt(100), FZero, FZero, FInt(1), 1, 1)
  /\ mcK = 0 /\ mcI = 0 /\ mcS = FInt(100) /\ mcPaths = <<>>
  /\ mcPc = "idle" /\ mcOut = NoSummary

\* The request handler, before a request.
Init == ServerIdle /\ DcfIdle /\ IrrIdle /\ LboIdle /\ McIdle /\ RestIdle
Next == POST
Spec == Init /\ [][Next]_vars

\* dcfModel on each input of DcfInputs.
InitDcf ==
  /\ dcf \in DcfInputs /\ dcfMemo = NoMemo
  /\ ServerIdle /\ IrrIdle /\ LboIdle /\ McIdle /\ RestIdle
NextDcf == RenderDcf
SpecDcf == InitDcf /\ [][NextDcf]_vars

\* irr on each schedule of IrrSchedules from each guess of IrrGuesses.
InitIrr ==
  /\ irrCashflows \in IrrSchedules /\ irrGuess \in IrrGuesses
  /\ irrR = irrGuess
  /\ irrI = 0 /\ irrF = FZero /\ irrDf = FZero /\ irrPc = "loop" /\ irrRet = NoRet
  /\ ServerIdle /\ DcfIdle /\ LboIdle /\ McIdle /\ RestIdle
NextIrr == IrrEval \/ IrrConverged \/ IrrDiverged \/ IrrStep \/ IrrExhausted
SpecIrr == InitIrr /\ [][NextIrr]_vars

\* lboModel, with its call of irr, on each input of LboInputs.
InitLbo ==
  /\ lbo \in LboInputs /\ lboFrame = NoLbo /\ lboMemo = NoLbo
  /\ ServerIdle /\ DcfIdle /\ IrrIdle /\ McIdle /\ RestIdle
NextLbo ==
  LboCall \/ IrrEval \/ IrrConverged \/ IrrDiverged \/ IrrStep \/ IrrExhausted \/ LboReturn
SpecLbo == InitLbo /\ [][NextLbo]_vars

\* logNormalMonteCarlo on each call of McCalls.
InitMc ==
  /\ mcArgs \in McCalls
  /\ mcK = 0 /\ mcI = 0 /\ mcS = mcArgs.s0 /\ mcPaths = <<>>
  /\ mcPc = "path" /\ mcOut = NoSummary
  /\ ServerIdle /\ DcfIdle /\ IrrIdle /\ LboIdle /\ RestIdle
NextMc == McStep \/ McPush \/ McSummarise
SpecMc == InitMc /\ [][NextMc]_vars

\* riskModel, with its call of logNormalMonteCarlo, on each input of RiskInputs.
InitRisk ==
  /\ risk \in RiskInputs /\ riskFrame = NoRisk /\ riskMemo = NoRisk
  /\ ServerIdle /\ DcfIdle /\ IrrIdle /\ LboIdle /\ McIdle /\ ScenIdle /\ FnIdle /\ HookIdle
NextRisk == RiskCall \/ McStep \/ McPush \/ McSummarise \/ RiskReturn
SpecRisk == InitRisk /\ [][NextRisk]_vars

\* The scenario routes over an empty table, with a database that may fail.
InitScen ==
  /\ ScenIdle
  /\ ServerIdle /\ DcfIdle /\ IrrIdle /\ LboIdle /\ McIdle /\ RiskIdle /\ FnIdle /\ HookIdle
NextScen ==
  \/ DbToggle \/ ScenarioCreate \/ ScenarioGet \/ ScenarioPut \/ ScenarioDelete
  \/ ScenarioGetSecond \/ ScenarioPutSecond \/ ScenarioDeleteSecond
SpecScen == InitScen /\ [][NextScen]_vars

\* The debounced function of a mounted component, called at any time.
InitDebounce ==
  /\ DebounceIdle /\ PollIdle /\ MarketIdle
  /\ ServerIdle /\ DcfIdle /\ IrrIdle /\ LboIdle /\ McIdle /\ RiskIdle /\ ScenIdle
  /\ FnIdle
NextDebounce == DebouncedCall \/ TimerFires \/ Tick \/ Unmount
SpecDebounce == InitDebounce /\ [][NextDebounce]_vars

\* Calls of fetchMarkets whose responses arrive in any order.
InitPoll ==
  /\ DebounceIdle /\ PollIdle /\ MarketIdle
  /\ ServerIdle /\ DcfIdle /\ IrrIdle /\ LboIdle /\ McIdle /\ RiskIdle /\ ScenIdle
  /\ FnIdle
NextPoll == FetchMarkets \/ FetchResolves \/ FetchRejects
SpecPoll == InitPoll /\ [][NextPoll]_vars

\* GET /api/markets on each combination of answers of the quote source.
InitMarkets ==
  /\ feed \in [1..Len(INDICES) -> FeedCases] /\ marketsBody = NoBody
  /\ DebounceIdle /\ PollIdle
  /\ ServerIdle /\ DcfIdle /\ IrrIdle /\ LboIdle /\ McIdle /\ RiskIdle /\ ScenIdle
  /\ FnIdle
NextMarkets == MarketsGet
SpecMarkets == InitMarkets /\ [][NextMarkets]_vars

\* clamp and expSmooth on each call of ClampCalls and SmoothCalls.
InitFn ==
  /\ call \in ClampCalls \cup SmoothCalls /\ ret = NotReturned
  /\ ServerIdle /\ DcfIdle /\ IrrIdle /\ LboIdle /\ McIdle /\ RiskIdle /\ ScenIdle /\ HookIdle
NextFn == CallClamp \/ CallExpSmooth
SpecFn == InitFn /\ [][NextFn]_vars

\* Bound on the horizons of the forecast cases.
MaxPageYears == 2

\* 10^24, a margin field that holds a very large number.
HugeMargin == FMul(FMul(FInt(100000000), FInt(100000000)), FInt(100000000))

\* Forecast drivers the page can hold in its DCF and its LBO panel: the
\* horizon, the year-0 and target margins (close, apart, falling, of very
\* different magnitude), D&A below and above the margin (EBIT of either
\* sign), tax rates of either sign, a cleared revenue field (NaN), and D&A
\* at the target margin (EBIT of 0 in the final year).
ForecastCases ==
  {[years |-> n, margin0 |-> mm[1], marginT |-> mm[2], daPctRev |-> da,
    taxRate |-> tx, revenue0 |-> FInt(1000)] :
     n \in 1..MaxPageYears,
     mm \in {<<FDec(22, 100), FDec(24, 100)>>, <<FDec(3, 100), FDec(29, 100)>>,
             <<FDec(-10, 100), FDec(25, 100)>>, <<HugeMargin, FDec(24, 100)>>},
     da \in {FDec(3, 100), FDec(30, 100)},
     tx \in {FDec(25, 100), FZero, FDec(-10, 100)}}
  \cup {[years |-> 1, margin0 |-> FDec(22, 100), marginT |-> FDec(24, 100),
          daPctRev |-> FDec(3, 100), taxRate |-> FDec(25, 100), revenue0 |-> FNaN],
        [years |-> 1, margin0 |-> FDec(22, 100), marginT |-> FDec(24, 100),
          daPctRev |-> FDec(24, 100), taxRate |-> FDec(25, 100),
          revenue0 |-> FInt(1000)]}

\* The DCF inputs of a case: its horizon is the case's.
DcfCase(c) ==
  [DcfExample EXCEPT !.years = FInt(c.years), !.revenue0 = c.revenue0,
                     !.ebitdaMargin0 = c.margin0, !.ebitdaMarginT = c.marginT,
                     !.daPctRev = c.daPctRev, !.taxRate = c.taxRate]

\* The LBO inputs of a case: the horizons run against each other, so that a
\* single-year DCF meets a several-year LBO and the reverse.
LboCase(c) ==
  [LboDefaults EXCEPT !.holdYears = FInt(MaxPageYears + 1 - c.years),
                      !.revenue0 = c.revenue0,
                      !.ebitdaMargin0 = c.margin0, !.marginTo = c.marginT,
                      !.daPctRev = c.daPctRev, !.taxRate = c.taxRate]

\* A render of the page on each forecast case: dcfModel and lboModel, with
\* its call of irr.
InitForecast ==
  /\ \E c \in ForecastCases : dcf = DcfCase(c) /\ lbo = LboCase(c)
  /\ dcfMemo = NoMemo /\ lboFrame = NoLbo /\ lboMemo = NoLbo
  /\ ServerIdle /\ IrrIdle /\ McIdle /\ RestIdle
NextForecast ==
  \/ RenderDcf
  \/ LboCall \/ IrrEval \/ IrrConverged \/ IrrDiverged \/ IrrStep \/ IrrExhausted
  \/ LboReturn
SpecForecast == InitForecast /\ [][NextForecast]_vars

\* ---------------------------------------------------------------------
\* Properties of the request handler (specification Spec)
\* ---------------------------------------------------------------------

Inside(x, lo, hi) == FLe(lo, x) /\ FLe(x, hi)

\* The messages of the rules a body violates, in the handler's order.
RuleMessages(b) ==
  (IF ~Inside(b.years, FInt(1), FInt(15)) THEN <<"years must be 1-15">> ELSE <<>>)
  \o (IF FLe(b.revenue0, FZero) \/ ~IsFinite(b.revenue0)
      THEN <<"revenue0 must be > 0">> ELSE <<>>)
  \o (IF FLe(b.shares, FZero) \/ ~IsFinite(b.shares)
      THEN <<"shares must be > 0">> ELSE <<>>)
  \o (IF ~Inside(b.taxRate, FZero, FDec(6, 10)) THEN <<"taxRate must be 0-0.6">> ELSE <<>>)
  \o (IF ~Inside(b.targetDebtPct, FZero, FDec(95, 100))
      THEN <<"targetDebtPct must be 0-0.95">> ELSE <<>>)

\* C1: a parsed request is answered with ok:false, status 400 and one message
\* per violated rule, with computeDcf not run, exactly when it violates one of
\* the five rules (years in [1,15], revenue0 > 0, shares > 0, taxRate in
\* [0,0.6], targetDebtPct in [0,0.95]); a request that satisfies all five
\* proceeds to computeDcf.
ValidationGate ==
  req.kind = "json" =>
    IF Len(RuleMessages(req.body)) > 0
    THEN /\ out = NoOut
         /\ resp = [ok |-> FALSE, status |-> 400, errors |-> RuleMessages(req.body)]
    ELSE /\ out = computeDcf(req.body)
         /\ out # NoOut

\* A request that violates all five rules has been rejected with five messages.
RejectedWithFiveMessages ==
  /\ req.kind = "json"
  /\ out = NoOut
  /\ ~resp.ok /\ resp.status = 400
  /\ Len(resp.errors) = 5

\* C2: for a validated request whose terminal value comes from the Gordon
\* formula (any terminalMethod other than "exit") with WACC <= tg, the
\* handler answers with a failure, so no ok:true response carries the NaN
\* terminal value of the Gordon branch.
GordonFailureRejected ==
  (/\ req.kind = "json"
   /\ Len(RuleMessages(req.body)) = 0
   /\ req.body.terminalMethod # "exit"
   /\ FLe(out.wacc, req.body.tg))
  => (~resp.ok /\ resp.status = 400)

\* C3: for a validated request with terminalMethod = gordon and WACC > tg
\* the enterprise value is finite and equityValue = enterpriseValue - netDebt.
GordonValueFinite ==
  (/\ req.kind = "json"
   /\ Len(RuleMessages(req.body)) = 0
   /\ req.body.terminalMethod = "gordon"
   /\ FGt(out.wacc, req.body.tg))
  => /\ IsFinite(out.enterpriseValue)
     /\ out.equityValue = FSub(out.enterpriseValue, req.body.netDebt)

Near(x, y, tol) == FLe(FAbs(FSub(x, y)), tol)

\* |x - y| <= 1e-9 * |y|
Close(x, y) == FLe(FAbs(FSub(x, y)), FMul(FDec(1, 1000000000), FAbs(y)))

ExampleAnswered == req.kind = "json" /\ req.body = DcfExample

\* C4 (as amended): for the end-to-end example the handler computes
\* WACC = (1-wd)*(rf+beta*mrp) + wd*preTaxKd*(1-taxRate) with
\* wd = clamp(targetDebtPct,0,0.95), which is 0.0846 to four decimals, a
\* positive finite enterprise value, and WACC > tg.
ExampleWacc ==
  ExampleAnswered =>
    /\ Near(out.wacc, FDec(846, 10000), FDec(5, 100000))
    /\ Near(out.wacc,
            FAdd(FMul(FSub(FOne, FDec(30, 100)), FAdd(FDec(4, 100), FMul(FDec(12, 10), FDec(5, 100)))),
                 FMul(FMul(FDec(30, 100), FDec(65, 1000)), FSub(FOne, FDec(25, 100)))),
            FDec(1, 1000000000))
    /\ IsFinite(out.enterpriseValue) /\ FGt(out.enterpriseValue, FZero)
    /\ FGt(out.wacc, DcfExample.tg)

\* The example request has been answered with a success.
ExampleSucceeded == ExampleAnswered /\ resp.ok /\ resp.status = 200

\* C4 as stated: the example's WACC is 0.0946 to four decimals.
ExampleWaccAsStated ==
  ExampleAnswered => Near(out.wacc, FDec(946, 10000), FDec(5, 100000))

\* ---------------------------------------------------------------------
\* Properties of irr (specification SpecIrr)
\* ---------------------------------------------------------------------

OneSign(cfs) ==
  \/ \A j \in 1..Len(cfs) : cfs[j].cf.s > 0
  \/ \A j \in 1..Len(cfs) : cfs[j].cf.s < 0

\* C5: on a schedule without a sign change irr returns a non-finite value,
\* whatever the guess.
OneSignReturnsNonFinite ==
  (irrPc = "done" /\ OneSign(irrCashflows)) => ~IsFinite(irrRet)

\* C6: every finite rate irr returns has |NPV| < 1e-8; a call that uses up
\* its 60 iterations returns a non-finite value.
FiniteReturnIsRoot ==
  (irrPc = "done" /\ IsFinite(irrRet)) => Converged(NpvOf(irrCashflows, irrRet).f)

TwoEvent(cfs) ==
  /\ Len(cfs) = 2
  /\ cfs[1].t = 0 /\ cfs[1].cf.s < 0
  /\ cfs[2].t >= 1 /\ cfs[2].cf.s > 0

\* a * (1 + lo)^N <= b <= a * (1 + hi)^N: the root (b/a)^(1/N) - 1 of the
\* two-event schedule lies in [lo, hi].
RootBetween(cfs, lo, hi) ==
  /\ FLe(FMul(FNeg(cfs[1].cf), MathPow(FAdd(FOne, lo), cfs[2].t)), cfs[2].cf)
  /\ FLe(cfs[2].cf, FMul(FNeg(cfs[1].cf), MathPow(FAdd(FOne, hi), cfs[2].t)))

RootTolerance == FDec(1, 1000000)

ReturnsRoot ==
  /\ IsFinite(irrRet)
  /\ RootBetween(irrCashflows, FSub(irrRet, RootTolerance), FAdd(irrRet, RootTolerance))

TwoEventCall ==
  /\ irrPc = "done"
  /\ TwoEvent(irrCashflows)
  /\ RootBetween(irrCashflows, IrrLo, IrrHi)
  /\ irrGuess \in {FDec(20, 100), FDec(25, 100)}

FiniteReturnWithinClamp ==
  (irrPc = "done" /\ IsFinite(irrRet))
  => \/ irrI = 0 /\ irrRet = irrGuess
     \/ FLe(FDec(-95, 100), irrRet) /\ FLe(irrRet, FInt(5))

\* irr([(0,-1),(1,8)], 0.2), whose root is 7, has used its 60 iterations and
\* returned the upper limit 5.
UpperLimitReturned ==
  /\ irrPc = "done" /\ irrI = IrrMaxIter
  /\ irrCashflows \in HighRootSchedules /\ irrGuess = FDec(20, 100)
  /\ irrRet = FInt(5)

\* ---------------------------------------------------------------------
\* Properties of lboModel (specification SpecLbo)
\* ---------------------------------------------------------------------

SweepSum(rows) == Sum(SeqOf([t \in 1..Len(rows) |-> rows[t].sweep], Len(rows)))

DebtTolerance == FDec(1, 1000000)

\* mandatoryAmortPct = 0, debtRate = 0 and cashAfter >= 0 in every year.
SweepOnly ==
  /\ lboMemo # NoLbo
  /\ lbo.mandatoryAmortPct = FZero /\ lbo.debtRate = FZero
  /\ \A t \in 1..Len(lboMemo.rows) : FGe(lboMemo.rows[t].cashAfter, FZero)

\* C8 (as amended): with mandatoryAmortPct = 0, debtRate = 0, cashAfter >= 0
\* in every year and a non-negative entry debt, the ending debt is
\* max(0, entryDebt - sum of the sweeps max(0, cashAfter - mandatory)), within
\* rounding, and is not negative.
SweepPaysDebtDown ==
  (SweepOnly /\ FGe(lboMemo.debt0, FZero))
  => /\ Near(lboMemo.exitDebt,
             MathMax(FZero, FSub(lboMemo.debt0, SweepSum(lboMemo.rows))), DebtTolerance)
     /\ FGe(lboMemo.exitDebt, FZero)

\* A sweep-only schedule has paid part of a positive entry debt.
SweepPartlyPaid ==
  /\ SweepOnly
  /\ FGt(lboMemo.exitDebt, FZero)
  /\ FLt(lboMemo.exitDebt, lboMemo.debt0)
  /\ Len(lboMemo.rows) = MaxHoldYears

\* C8 as stated: with mandatoryAmortPct = 0, debtRate = 0 and cashAfter >= 0
\* in every year, the ending debt is entryDebt minus the sum of the sweeps,
\* and is not negative.
SweepPaysDebtDownAsStated ==
  SweepOnly
  => /\ Near(lboMemo.exitDebt, FSub(lboMemo.debt0, SweepSum(lboMemo.rows)), DebtTolerance)
     /\ FGe(lboMemo.exitDebt, FZero)

\* The debt at the beginning of year t of the returned schedule.
BeginDebt(t) == IF t = 1 THEN lboMemo.debt0 ELSE lboMemo.rows[t - 1].EndDebt

LboReturned == lboMemo # NoLbo

\* Year t begins at BeginDebt(t): its interest is charged on that debt and
\* its ending debt is that debt less the paydown.
ChainedAt(t) ==
  /\ lboMemo.rows[t].Interest = FMul(BeginDebt(t), lbo.debtRate)
  /\ lboMemo.rows[t].EndDebt = FSub(BeginDebt(t), lboMemo.rows[t].Paydown)

\* C17 (as amended): year 1 begins at entry debt and each later year at the
\* previous year's ending debt; ending debt = beginning debt - paydown; the
\* paydown lies in [0, beginning debt] when the beginning debt is not
\* negative and is 0 when it is negative; so for entry debt >= 0 the
\* ending debts are non-negative and non-increasing; exit debt is the last
\* year's ending debt.
DebtScheduleChained ==
  LboReturned =>
    /\ \A t \in 1..Len(lboMemo.rows) :
         /\ ChainedAt(t)
         /\ FGe(BeginDebt(t), FZero) => Inside(lboMemo.rows[t].Paydown, FZero, BeginDebt(t))
         /\ FLt(BeginDebt(t), FZero) => lboMemo.rows[t].Paydown = FZero
         /\ FGe(lboMemo.debt0, FZero) =>
              /\ FGe(lboMemo.rows[t].EndDebt, FZero)
              /\ FLe(lboMemo.rows[t].EndDebt, BeginDebt(t))
    /\ lboMemo.exitDebt = lboMemo.rows[Len(lboMemo.rows)].EndDebt

\* A schedule of MaxHoldYears years has paid a positive entry debt down in
\* every year without clearing it.
DebtPaidDownEveryYear ==
  /\ LboReturned
  /\ Len(lboMemo.rows) = MaxHoldYears
  /\ \A t \in 1..Len(lboMemo.rows) :
       /\ FGt(lboMemo.rows[t].Paydown, FZero)
       /\ FGt(lboMemo.rows[t].EndDebt, FZero)
       /\ FLt(lboMemo.rows[t].EndDebt, BeginDebt(t))

\* C17 as stated: each year's paydown lies in [0, beginning debt] and ending
\* debt = beginning debt - paydown; exit debt is the last ending debt.
PaydownWithinDebt ==
  LboReturned =>
    /\ \A t \in 1..Len(lboMemo.rows) :
         /\ ChainedAt(t)
         /\ Inside(lboMemo.rows[t].Paydown, FZero, BeginDebt(t))
    /\ lboMemo.exitDebt = lboMemo.rows[Len(lboMemo.rows)].EndDebt

\* x and y are the same amount: equal within rounding when both are
\* numbers, the same non-finite value otherwise.
SameAmount(x, y) == IF IsFinite(x) /\ IsFinite(y) THEN Close(x, y) ELSE x = y

\* 5% less the rounding of the products.
FivePercent == FMul(FDec(5, 100), FSub(FOne, FDec(1, 1000000000)))

\* C18: entry debt = entryEV * clamp(debtPctEV, 0, 0.95) and entry equity =
\* entryEV + fees - entry debt, so entry equity + entry debt = entryEV + fees
\* (up to rounding) for every input; for entryEV > 0 with fees >= 0 the
\* entry equity is at least 5% of entryEV and strictly positive.
EntryFinancingBalances ==
  LboReturned =>
    /\ lboMemo.debt0 = FMul(lboMemo.entryEV, clamp(lbo.debtPctEV, FZero, FDec(95, 100)))
    /\ SameAmount(FAdd(lboMemo.equity0, lboMemo.debt0),
                  FAdd(lboMemo.entryEV, lboMemo.fees))
    /\ (FGt(lboMemo.entryEV, FZero) /\ FGe(lboMemo.fees, FZero))
       => /\ FGe(lboMemo.equity0, FMul(FivePercent, lboMemo.entryEV))
          /\ FGt(lboMemo.equity0, FZero)

\* An entry at 2200 with a debt share of 1.5, capped at 0.95, and no fees:
\* debt 2090 and equity 110, which is 5% of 2200.
EntryAtDebtCap ==
  /\ LboReturned
  /\ lbo.debtPctEV = FDec(15, 10) /\ lbo.txnFeesPctEV = FZero
  /\ lboMemo.entryEV = FInt(2200) /\ lboMemo.fees = FZero
  /\ lboMemo.debt0 = FInt(2090) /\ lboMemo.equity0 = FInt(110)

\* C19: lboModel returns on degenerate inputs: entry leverage is non-finite
\* when entry EBITDA = 0, exit leverage is non-finite when exit EBITDA = 0,
\* MOIC is non-finite when entry equity = 0, and every field of the result
\* is produced, the amounts as numbers when the inputs are numbers.
DegenerateLboReturns ==
  LboReturned =>
    /\ DOMAIN lboMemo = {"N", "entryEV", "fees", "debt0", "equity0", "exitEV", "exitDebt",
                         "exitEquity", "irrEq", "moic", "entryLeverage", "exitLeverage",
                         "rows"}
    /\ Len(lboMemo.rows) = HoldYears(lbo)
    /\ IsZero(LboEntry(lbo).entryEBITDA) => ~IsFinite(lboMemo.entryLeverage)
    /\ IsZero(lboMemo.rows[Len(lboMemo.rows)].EBITDA) => ~IsFinite(lboMemo.exitLeverage)
    /\ IsZero(lboMemo.equity0) => ~IsFinite(lboMemo.moic)
    /\ IsFinite(lbo.revenue0) =>
         \A f \in {"entryEV", "fees", "debt0", "equity0", "exitEV", "exitDebt",
                   "exitEquity"} : IsFinite(lboMemo[f])

\* lboModel has returned for a target without revenue: no entry EBITDA, no
\* exit EBITDA and no entry equity, so neither leverage nor MOIC is a
\* number, and the amounts are 0.
NoRevenueReturned ==
  /\ LboReturned
  /\ lbo.revenue0 = FZero
  /\ ~IsFinite(lboMemo.entryLeverage) /\ ~IsFinite(lboMemo.exitLeverage)
  /\ ~IsFinite(lboMemo.moic)
  /\ lboMemo.entryEV = FZero /\ lboMemo.exitEquity = FZero
  /\ Len(lboMemo.rows) = 2

\* ---------------------------------------------------------------------
\* Properties of dcfModel (specification SpecDcf)
\* ---------------------------------------------------------------------

BaseCell == dcfMemo.sensWG[2][3]

\* C9 (as amended): when terminalMethod = gordon, tg lies in [0, 0.08] and
\* the WACC lies in [0.01, 0.5], the middle cell of sensWG is the base
\* pricePerShare (both NaN when WACC <= tg or shares is 0).
BaseCellIsBasePrice ==
  (/\ dcfMemo # NoMemo
   /\ dcf.terminalMethod = "gordon"
   /\ Inside(dcf.tg, FZero, FDec(8, 100))
   /\ Inside(dcfMemo.wacc, FDec(1, 100), FDec(5, 10)))
  => BaseCell = dcfMemo.pricePerShare

\* A Gordon case inside both grids has a finite base cell.
BaseCellComputed ==
  /\ dcfMemo # NoMemo
  /\ dcf.terminalMethod = "gordon"
  /\ dcfMemo.gGrid[2] = dcf.tg /\ dcfMemo.waccGrid[3] = dcfMemo.wacc
  /\ IsFinite(BaseCell)
  /\ BaseCell = dcfMemo.pricePerShare

\* C9 as stated: for every input the middle cell of sensWG is the base
\* pricePerShare.
BaseCellIsBasePriceAsStated ==
  dcfMemo # NoMemo => BaseCell = dcfMemo.pricePerShare

\* ---------------------------------------------------------------------
\* Properties of logNormalMonteCarlo (specification SpecMc)
\* ---------------------------------------------------------------------

Drift == FMul(mcArgs.s0, MathExp(FMul(mcArgs.mu, mcArgs.years)))

NoVolatilityDone == mcPc = "done" /\ mcArgs.sigma = FZero

\* C10 (as amended): with sigma = 0 and years >= 0 every path ends at one
\* and the same value, which is s0*exp(mu*years) within rounding, whatever
\* the draws and the step count; p05, p50 and p95 are that value and the
\* mean is that value within rounding.
NoVolatilityCollapses ==
  (NoVolatilityDone /\ FGe(mcArgs.years, FZero))
  => /\ \A j \in 1..Len(mcPaths) : mcPaths[j] = mcPaths[1]
     /\ Close(mcPaths[1], Drift)
     /\ mcOut.p05 = mcPaths[1] /\ mcOut.p50 = mcPaths[1] /\ mcOut.p95 = mcPaths[1]
     /\ Close(mcOut.mean, mcPaths[1])

\* A call without volatility over several steps and paths has returned.
NoVolatilityReturned ==
  /\ NoVolatilityDone
  /\ mcArgs.steps = MaxSteps /\ mcArgs.n = MaxPaths
  /\ FGt(mcArgs.years, FZero)
  /\ IsFinite(mcOut.mean)

\* C10 as stated: with sigma = 0 every path ends at s0*exp(mu*years) and
\* p05 = p50 = p95 = mean (read within rounding).
NoVolatilityCollapsesAsStated ==
  NoVolatilityDone
  => /\ \A j \in 1..Len(mcPaths) : Close(mcPaths[j], Drift)
     /\ Close(mcOut.p05, mcOut.p50) /\ Close(mcOut.p50, mcOut.p95)
     /\ Close(mcOut.p95, mcOut.mean)

\* ---------------------------------------------------------------------
\* Properties of riskModel (specification SpecRisk)
\* ---------------------------------------------------------------------

\* The risk inputs with the capital multiplied by k.
ScaledCapital(k) == [risk EXCEPT !.capital = FMul(k, risk.capital)]

\* v2 is k times v: within rounding when both are numbers, and the same
\* non-finite value otherwise.
Proportional(v2, k, v) ==
  IF IsFinite(v2) /\ IsFinite(v) THEN Close(v2, FMul(k, v)) ELSE v2 = FMul(k, v)

\* C11: the value at risk is linear in capital: with the other risk inputs
\* fixed, the VaR of 2*capital is twice the VaR riskModel returned for
\* capital, and the VaR of k*capital is k times it (k = 3, 1/2), up to the
\* rounding of the multiplications.
VarLinearInCapital ==
  riskMemo # NoRisk =>
    \A k \in {FInt(2), FInt(3), FDec(1, 2)} :
      Proportional(VarAmt(ScaledCapital(k)), k, riskMemo.varAmt)

\* riskModel has returned the VaR 411250 of the initial inputs, and the VaR
\* of twice the capital is 822500.
VarDoubled ==
  /\ riskMemo # NoRisk
  /\ risk = RiskDefaults
  /\ riskMemo.varAmt = FInt(411250)
  /\ VarAmt(ScaledCapital(FInt(2))) = FInt(822500)

\* ---------------------------------------------------------------------
\* Properties of the forecasts of the page (specification SpecForecast)
\* ---------------------------------------------------------------------

\* |x - y| <= 1e-9 * max(|a|, |b|)
WithinRounding(x, y, a, b) ==
  FLe(FAbs(FSub(x, y)), FMul(FDec(1, 1000000000), MathMax(FAbs(a), FAbs(b))))

\* (m0*(N - t) + mT*t) / N, the margin of year t written as a weighted mean.
WeightedMargin(m0, mT, t, N) ==
  FDiv(FAdd(FMul(m0, FInt(N - t)), FMul(mT, FInt(t))), FInt(N))

\* mg is the linear path from m0 to mT over Len(mg) years, within rounding.
LinearPath(mg, m0, mT) ==
  \A t \in 1..Len(mg) :
    WithinRounding(mg[t], WeightedMargin(m0, mT, t, Len(mg)), m0, mT)

\* The last margin of mg is mT, within rounding.
EndsNear(mg, m0, mT) == WithinRounding(mg[Len(mg)], mT, m0, mT)

\* The page has computed both forecasts.
BothForecast == dcfMemo # NoMemo /\ lboMemo # NoLbo

OnId == scReq.method \in {"GET", "PUT", "DELETE"}

\* C13: for GET, PUT and DELETE on a scenario id, 'Not found' (404) is the
\* answer to a missing record and to nothing else: a request that fails
\* while its record exists (the database does not answer, the body is not
\* accepted) is answered differently.
NotFoundMeansMissing ==
  (OnId /\ scResp = NotFound) => ~IsPresent(store[scReq.id])

\* ---------------------------------------------------------------------
\* Properties of clamp and expSmooth (specification SpecFn)
\* ---------------------------------------------------------------------

ClampReturned == call.fn = "clamp" /\ ret.done

IsNaN(x) == x.k = "nan"

\* v is x bounded to [a, b]: x inside the limits, the limit x is beyond
\* otherwise.
Bounded(v, x, a, b) ==
  /\ FLe(a, v) /\ FLe(v, b)
  /\ (FLe(a, x) /\ FLe(x, b)) => v = x
  /\ FLt(x, a) => v = a
  /\ FGt(x, b) => v = b

\* C14 (as amended): clamp(x, lo, hi) always returns; for numbers x, lo and
\* hi with lo <= hi it returns x bounded to [lo, hi] (x itself when
\* lo <= x <= hi, lo when x < lo, hi when x > hi); with lo > hi it returns
\* lo, which is outside the empty interval; for a NaN argument it returns
\* NaN.
ClampWithinOrderedLimits ==
  ClampReturned =>
    IF IsNaN(call.x) \/ IsNaN(call.a) \/ IsNaN(call.b) THEN IsNaN(ret.v)
    ELSE IF FLe(call.a, call.b) THEN Bounded(ret.v, call.x, call.a, call.b)
    ELSE ret.v = call.a

\* clamp(131, 0, 110), the paydown of a sweep beyond the debt, returned 110.
ClampedToDebt ==
  /\ ClampReturned
  /\ call.x = FInt(131) /\ call.a = FZero /\ call.b = FInt(110)
  /\ ret.v = FInt(110)

\* C14 as stated: for every numeric x, lo and hi it is called with, clamp
\* returns a value inside [lo, hi]: x, lo or hi.
ClampWithinLimits ==
  (ClampReturned /\ ~IsNaN(call.x) /\ ~IsNaN(call.a) /\ ~IsNaN(call.b))
  => Bounded(ret.v, call.x, call.a, call.b)

SmoothReturned == call.fn = "expSmooth" /\ ret.done

\* alpha lies in the open interval (0, 1).
InUnitInterval(alpha) == FGt(alpha, FZero) /\ FLt(alpha, FOne)

\* C15: expSmooth returns the empty sequence whenever the series is empty or
\* alpha is not in the open interval (0, 1), and a sequence of the length of
\* the series otherwise.
SmoothRejectsBadAlpha ==
  SmoothReturned =>
    IF Len(call.series) = 0 \/ ~InUnitInterval(call.alpha) THEN ret.v = <<>>
    ELSE Len(ret.v) = Len(call.series)

\* ebit, taxes and nopat agree with the rule: taxes = max(0, ebit) * taxRate,
\* no tax on ebit <= 0, which leaves nopat = ebit, and no negative tax at a
\* tax rate >= 0.
TaxRule(ebit, taxes, nopat, taxRate) ==
  /\ taxes = FMul(MathMax(FZero, ebit), taxRate)
  /\ nopat = FSub(ebit, taxes)
  /\ FLe(ebit, FZero) => (taxes = FZero /\ nopat = ebit)
  /\ FGe(taxRate, FZero) => ~FLt(taxes, FZero)

\* C20: in every forecast year of the DCF and of the LBO engine
\* tax = max(0, EBIT) * taxRate: the tax is 0 whenever EBIT <= 0, so that
\* NOPAT = EBIT, and for taxRate >= 0 the tax is never negative.
LossesEarnNoTaxCredit ==
  BothForecast =>
    /\ \A fl \in {Flows(dcf, dcfMemo.N)} :
         \A t \in 1..Len(fl) :
           TaxRule(fl[t].ebit, fl[t].taxes, fl[t].nopat, dcf.taxRate)
    /\ \A rv \in {lboRevs(lbo, lboMemo.N)}, mg \in {lboMargin(lbo, lboMemo.N)} :
         \A t \in 1..lboMemo.N :
           \A y \in {LboTax(lbo, rv[t], mg[t])} :
             TaxRule(y.ebit, y.tax, FSub(y.ebit, y.tax), lbo.taxRate)

\* The page has computed both forecasts with D&A of 30% of revenue at a tax
\* rate of 25%: the single DCF year has an EBIT of -66 and both LBO years
\* have a loss; none of them is taxed.
LossYearsUntaxed ==
  /\ BothForecast
  /\ dcf.daPctRev = FDec(30, 100) /\ dcf.taxRate = FDec(25, 100)
  /\ dcf.ebitdaMargin0 = FDec(22, 100)
  /\ dcfMemo.N = 1 /\ lboMemo.N = 2
  /\ Flows(dcf, 1)[1].ebit = FInt(-66)
  /\ Flows(dcf, 1)[1].taxes = FZero /\ Flows(dcf, 1)[1].nopat = FInt(-66)
  /\ \A t \in 1..2 :
       /\ FLt(LboTax(lbo, lboRevs(lbo, 2)[t], lboMargin(lbo, 2)[t]).ebit, FZero)
       /\ LboTax(lbo, lboRevs(lbo, 2)[t], lboMargin(lbo, 2)[t]).tax = FZero

\* ---------------------------------------------------------------------
\* Properties of the sensitivity grid (specification SpecDcf)
\* ---------------------------------------------------------------------

\* The present value of the base case's UFCF.
BasePvUfcf(base) == Sum(SeqOf([t \in 1..base.N |-> base.table[t].pvUfcf], base.N))

\* The price per share of a cell whose terminal value
\* lastUFCF*(1+g)/(w-g) is discounted by the factor dfLast.
CellPrice(base, w, g, dfLast) ==
  FDiv(FSub(FAdd(BasePvUfcf(base),
                 FMul(FDiv(FMul(base.table[base.N].ufcf, FAdd(FOne, g)), FSub(w, g)),
                      dfLast)),
            dcf.netDebt),
       OrElse(dcf.shares, FNaN))

\* The cell is the price per share for (w, g) with the terminal value
\* discounted at the rate rate, and is non-finite when w - g <= 0.
CellDiscountedAt(cell, base, w, g, rate) ==
  IF FLe(FSub(w, g), FZero) THEN ~IsFinite(cell)
  ELSE SameAmount(cell, CellPrice(base, w, g, DiscountFactors(dcf, base.N, rate)[base.N]))

\* C21: each cell of the sensitivity grid for grid values (w, g) reuses the
\* base case's present value of UFCF and re-derives the terminal value
\* lastUFCF*(1+g)/(w-g) and its discounting from the cell's own w and g, the
\* terminal value being discounted with the cell's WACC; a cell with
\* w - g <= 0 is non-finite.
SensCellsRediscounted ==
  dcfMemo # NoMemo =>
    \A base \in {computeDcf(dcf)} :
      \A r \in 1..3, c \in 1..5 :
        CellDiscountedAt(dcfMemo.sensWG[r][c], base, dcfMemo.waccGrid[c],
                         dcfMemo.gGrid[r], dcfMemo.waccGrid[c])

\* ---------------------------------------------------------------------
\* Properties of the position sizing (specification SpecRisk)
\* ---------------------------------------------------------------------

RiskReturned == riskMemo # NoRisk

ValuationFields ==
  {"N", "ke", "kd", "we", "wd", "wacc", "tv", "pvTv", "enterpriseValue", "equityValue",
   "pricePerShare", "waccGrid"}

\* Other values of the terminal growth and of the exit multiple.
OtherGrowth == {FDec(5, 100), FDec(9, 100)}
OtherMultiples == {FInt(12), FZero}

WithGrowth(g) == [dcf EXCEPT !.tg = g]
WithMultiple(x) == [dcf EXCEPT !.exitMultiple = x]

\* The page's model and the handler's answer on d agree with those on the
\* current inputs in the fields fs.
SameResult(d, fs) ==
  /\ \A m \in {dcfModel(d)} : \A f \in fs : m[f] = dcfMemo[f]
  /\ Respond(d) = Respond(dcf)

\* C23 (as amended): under the exit-multiple method the terminal value,
\* enterprise value, equity value, price per share and the handler's
\* accept/reject outcome are the same for any two inputs that differ only in
\* tg, but the sensitivity grid is not: gGrid and sensWG are computed from tg
\* by the Gordon formula under either method.  Under the Gordon method every
\* field, the grid included, is the same for any two inputs that differ only
\* in exitMultiple.
OneTerminalParameter ==
  dcfMemo # NoMemo =>
    /\ dcf.terminalMethod = "exit" =>
         \A g \in OtherGrowth : SameResult(WithGrowth(g), ValuationFields)
    /\ dcf.terminalMethod = "gordon" =>
         \A x \in OtherMultiples : SameResult(WithMultiple(x), DOMAIN dcfMemo)

\* Under the exit-multiple method, with the growth rate at 3% and at 5%, the
\* price per share is the same number and the grids of prices differ.
GrowthMovesOnlyTheGrid ==
  /\ dcfMemo # NoMemo
  /\ dcf.terminalMethod = "exit" /\ dcf.tg = FDec(3, 100)
  /\ IsFinite(dcfMemo.pricePerShare)
  /\ \A m \in {dcfModel(WithGrowth(FDec(5, 100)))} :
       /\ m.pricePerShare = dcfMemo.pricePerShare
       /\ m.tv = dcfMemo.tv
       /\ m.sensWG # dcfMemo.sensWG

\* C23 as stated: under the exit-multiple method every field of the result,
\* the sensitivity grid included, is the same for any two inputs that differ
\* only in tg, and under the Gordon method for any two inputs that differ
\* only in exitMultiple.
OneTerminalParameterAsStated ==
  dcfMemo # NoMemo =>
    /\ dcf.terminalMethod = "exit" =>
         \A g \in OtherGrowth : SameResult(WithGrowth(g), DOMAIN dcfMemo)
    /\ dcf.terminalMethod = "gordon" =>
         \A x \in OtherMultiples : SameResult(WithMultiple(x), DOMAIN dcfMemo)

\* ---------------------------------------------------------------------
\* C24: the frame of PUT
\* ---------------------------------------------------------------------

\* The record with the fields of the patch set to the patch's values.
Patched(rec, patch) ==
  [f \in DOMAIN rec |-> IF f \in DOMAIN patch THEN patch[f] ELSE rec[f]]

\* Patches that are JSON objects whose values the table takes.
StorablePatches == PutBodies \ {Malformed, [inputs |-> "null"]}

\* The step is a PUT of the patch on the id, served while the database
\* answers.
PutStep(id, patch) ==
  /\ dbUp /\ dbUp' = dbUp
  /\ scReq'.method = "PUT" /\ scReq'.id = id /\ scReq'.body = patch

\* What the step does to the table and what it answers.
PutEffect(id, patch) ==
  IF IsPresent(store[id])
  THEN /\ store' = [store EXCEPT ![id] = Patched(store[id], patch)]
       /\ scResp' = Found(store'[id])
  ELSE /\ scResp' = NotFound
       /\ store' = store

\* C24: a PUT on an existing scenario sets exactly the fields of name, kind,
\* currency and inputs that the patch holds to the patch's values and leaves
\* the other fields, the id and every other record as they were; a PUT on
\* an id that does not exist answers Not found and changes no record.
PutChangesPatchedFields ==
  [][\A id \in ScenarioIds, patch \in StorablePatches :
       PutStep(id, patch) => PutEffect(id, patch)]_vars

\* ---------------------------------------------------------------------
\* C25: the two copies of the DCF logic
\* ---------------------------------------------------------------------

\* The figures both copies return.
SharedFields ==
  {"N", "ke", "kd", "wd", "we", "wacc", "tv", "pvTv", "enterpriseValue",
   "equityValue", "pricePerShare"}

\* The inputs of the page and their neighbours with the other discounting
\* convention, a debt weight above the cap, and a horizon between two years.
NearInputs(d) ==
  {d, [d EXCEPT !.midYear = ~d.midYear],
   [d EXCEPT !.targetDebtPct = FDec(120, 100)],
   [d EXCEPT !.years = FDec(25, 10), !.ebitdaMarginT = FDec(-10, 100)]}

\* The request handler's computeDcf and the page's statements agree on the
\* shared figures of the input.
CopiesAgreeOn(d) ==
  \A server \in {computeDcf(d)}, page \in {dcfModelStatements(d)} :
    \A f \in SharedFields : server[f] = page[f]

\* C25: for every input the request handler's computeDcf and the page's
\* dcfModel compute identical N, ke, kd, wd, we, WACC, terminal value, PV of
\* the terminal value, enterprise value, equity value and price per share.
DcfCopiesAgree ==
  dcfMemo # NoMemo =>
    /\ \A f \in SharedFields : dcfMemo[f] = dcfModelStatements(dcf)[f]
    /\ \A d \in NearInputs(dcf) : CopiesAgreeOn(d)

\* The page has valued the initial inputs over two years at a WACC of
\* 0.084625, and the price per share of the request handler and of the
\* page's statements is the price it shows.
CopiesValued ==
  /\ dcfMemo # NoMemo
  /\ dcf = [DcfExample EXCEPT !.years = FInt(2)]
  /\ dcfMemo.wacc = FDec(84625, 1000000)
  /\ IsFinite(dcfMemo.pricePerShare)
  /\ dcfModelStatements(dcf).pricePerShare = dcfMemo.pricePerShare
  /\ computeDcf(dcf).pricePerShare = dcfMemo.pricePerShare

\* ---------------------------------------------------------------------
\* C26: the debounced callback
\* ---------------------------------------------------------------------

\* No call later than c was made before the timer of c was due.
NotFollowedWithinDelay(c) ==
  \A j \in (c + 1)..Len(calls) : calls[j].at >= DueAt(c)

\* C26: at most one timer is pending at any time; fn is invoked only for a
\* call that no other call follows within delayMs, once and with that call's
\* arguments; a timer that is pending when the component unmounts is
\* cancelled and never invokes fn.
DebounceInvokesLastOfBurst ==
  /\ Cardinality(timers) <= 1
  /\ \A n \in 1..Len(invoked) :
       /\ invoked[n].at >= DueAt(invoked[n].call)
       /\ NotFollowedWithinDelay(invoked[n].call)
       /\ invoked[n].args = calls[invoked[n].call].args
       /\ \A k \in 1..Len(invoked) : invoked[k].call = invoked[n].call => k = n
       /\ calls[invoked[n].call].mounted => invoked[n].mounted
  /\ ~mounted => \A t \in timers : ~calls[t.call].mounted

\* A burst of two calls within the delay, of which only the second invoked
\* fn, with its argument "b"; a third call was pending at the unmount and
\* has not invoked fn after its delay.
BurstThenUnmount ==
  /\ Len(calls) = 3 /\ ~mounted /\ timers = {}
  /\ calls[1].args = "a" /\ calls[2].args = "b"
  /\ calls[2].at < DueAt(1)
  /\ calls[3].mounted /\ now >= DueAt(3)
  /\ Len(invoked) = 1
  /\ invoked[1].call = 2 /\ invoked[1].args = "b" /\ invoked[1].mounted

\* ---------------------------------------------------------------------
\* C27: overlapping calls of fetchMarkets
\* ---------------------------------------------------------------------

\* The call whose response the page shows; 0 before any response.
ShownFetch ==
  IF marketsUpdatedAt = "" THEN 0
  ELSE CHOOSE n \in 1..MaxFetches :
         PollBody(n).updatedAt = marketsUpdatedAt /\ PollBody(n).indices = markets

\* C27: when calls of fetchMarkets overlap, the response of a call started
\* earlier never replaces the markets list and updatedAt of a call started
\* later, so that after all responses the page shows those of the call
\* started last.
LaterFetchNeverOverwritten == [][ShownFetch' >= ShownFetch]_vars

\* ---------------------------------------------------------------------
\* C28: the answer of GET /api/markets
\* ---------------------------------------------------------------------

BothFail == [range |-> Failed, fallback |-> Failed]

\* The rows parsed from the text fetchIndex reads: the range URL's, or the
\* fallback URL's when the range URL fails.
ParsedRows(f) ==
  IF f.range.ok THEN parseStooqCsv(f.range.text)
  ELSE IF f.fallback.ok THEN parseStooqCsv(f.fallback.text)
  ELSE <<>>

\* Both URLs fail, or the text yields fewer than two parsed rows.
NoQuote(f) == (~f.range.ok /\ ~f.fallback.ok) \/ Len(ParsedRows(f)) < 2

\* The same answers for index i, with every other index failing.
OthersFail(fs, i) == [j \in 1..Len(fs) |-> IF j = i THEN fs[j] ELSE BothFail]

ServedOnId(method, id) ==
  /\ dbUp /\ dbUp' = dbUp
  /\ scReq'.method = method /\ scReq'.id = id

\* The step serves a POST whose body lacks name, kind or inputs.
ServedIncompletePost ==
  /\ dbUp' = dbUp
  /\ scReq'.method = "POST"
  /\ (IsMalformed(scReq'.body) \/ ~({"name", "kind", "inputs"} \subseteq DOMAIN scReq'.body))

\* The step answers Not found and changes no record.
AnswersNotFound == scResp' = NotFound /\ store' = store

\* C29: over any sequence of requests on the scenario store, a GET, PUT or
\* DELETE of an id that was deleted answers Not found; a DELETE of an id that
\* does not exist answers Not found and changes no record; a POST without
\* name, kind or inputs is answered 400 and creates no record.
DeletedStaysDeleted ==
  [][/\ \A id \in ScenarioIds :
          /\ \A method \in {"GET", "PUT", "DELETE"} :
               (ServedOnId(method, id) /\ store[id] = Deleted) => AnswersNotFound
          /\ (ServedOnId("DELETE", id) /\ ~IsPresent(store[id])) => AnswersNotFound
     /\ ServedIncompletePost => (scResp'.status = 400 /\ store' = store)]_vars

\* ---------------------------------------------------------------------
\* C30: the paydown of an LBO year
\* ---------------------------------------------------------------------

\* min(debt, max(mandatory, cashAvailable))
PaydownRule(debt, mandatory, cashAvailable) ==
  MathMin(debt, MathMax(mandatory, cashAvailable))

\* C30: in every LBO year with beginning debt >= 0 the total paydown is
\* min(beginningDebt, max(mandatory, cashAvailable)), up to the rounding of
\* mandatory + sweep, with mandatory = beginningDebt *
\* clamp(mandatoryAmortPct, 0, 0.5); the mandatory amortization is paid in
\* full even when the cash available is smaller or negative, and the debt
\* never increases.
MandatoryAlwaysPaid ==
  LboReturned =>
    \A t \in 1..Len(lboMemo.rows) :
      \A row \in {lboMemo.rows[t]}, debt \in {BeginDebt(t)} :
        FGe(debt, FZero) =>
          /\ row.mandatory =
               FMul(debt, MathMax(FZero, MathMin(FDec(5, 10), lbo.mandatoryAmortPct)))
          /\ SameAmount(row.Paydown, PaydownRule(debt, row.mandatory, row.cashAfter))
          /\ IsFinite(row.cashAfter) =>
               /\ FGe(row.Paydown, row.mandatory)
               /\ FLe(row.EndDebt, debt)
               /\ FLt(row.cashAfter, row.mandatory) => row.Paydown = row.mandatory

\* lboModel has returned a schedule with an amortisation field of 80%: each
\* year's cash available is negative, and half of the beginning debt is paid
\* down all the same.
ShortfallYearPaid ==
  /\ LboReturned
  /\ lbo.mandatoryAmortPct = FDec(80, 100)
  /\ Len(lboMemo.rows) = 2
  /\ \A t \in 1..2 :
       /\ FLt(lboMemo.rows[t].cashAfter, FZero)
       /\ FGt(BeginDebt(t), FZero)
       /\ lboMemo.rows[t].Paydown = FMul(BeginDebt(t), FDec(5, 10))
       /\ lboMemo.rows[t].EndDebt = FSub(BeginDebt(t), lboMemo.rows[t].Paydown)

====
